---- MODULE Spec2Model ----
(***************************************************************************)
(* finsplit: the debt settlement simplifier of app.py (simplify_debts) and *)
(* the text extractors of parsers.py, as state machines.                   *)
(*                                                                         *)
(* Money in simplify_debts is a Python float.  It is modelled as an exact  *)
(* integer number of units, UnitsPerCent units to 0.01, so that amounts    *)
(* below one cent exist and round(amount, 2) is a real rounding.           *)
(***************************************************************************)
EXTENDS Integers, Sequences, FiniteSets, TLC

VARIABLES
    pc,             \* position of the running call
    balances,       \* simplify_debts: argument, participant id -> net balance
    member_map,     \* simplify_debts: argument, participant id -> name
    creditors,      \* simplify_debts: list of [mid, remaining], sorted
    debtors,        \* simplify_debts: list of [mid, remaining], sorted
    i,              \* simplify_debts: index into debtors (1-based here)
    j,              \* simplify_debts: index into creditors (1-based here)
    settlements,    \* simplify_debts: the transfers emitted so far
    text,           \* parsers: the argument string, a sequence of characters
    pasted,         \* parsers: the pieces the argument was put together from
    result,         \* parsers: the returned value, or the raised exception
    store_category_map, \* parsers: the module's table STORE_CATEGORY_MAP
    returned,       \* what each function returned when it was first called
    split_expenses, \* app: the SplitExpense rows of the group, with shares
    transactions    \* app: the persisted Transaction rows

\* what the calls of one function on its own leave alone
standing == <<store_category_map, returned, split_expenses, transactions>>

vars == <<pc, balances, member_map, creditors, debtors, i, j, settlements,
          text, pasted, result, store_category_map, returned, split_expenses,
          transactions>>

----------------------------------------------------------------------------
(* Bounds of the model *)

NumMembers == 4
MaxBal == 9
UnitsPerCent == 3
MaxImbalance == 1

Members == 1..NumMembers
BalRange == (0 - MaxBal)..MaxBal

----------------------------------------------------------------------------
(* Arithmetic helpers *)

Abs(x) == IF x < 0 THEN 0 - x ELSE x

Min(a, b) == IF a <= b THEN a ELSE b

RECURSIVE SumOver(_, _)
SumOver(f, S) ==
    IF S = {} THEN 0
    ELSE LET m == CHOOSE x \in S : TRUE IN f[m] + SumOver(f, S \ {m})

\* The epsilon 0.01 of simplify_debts, in units.
EPS == UnitsPerCent

\* variant: round(amount), the nearest whole currency unit
RoundWhole(x) ==
    ((x + 50 * UnitsPerCent) \div (100 * UnitsPerCent)) * (100 * UnitsPerCent)

\* round(amount, 2): the nearest multiple of 0.01; an exact tie goes to the
\* even cent, as Python rounds an exactly representable tie.
Round2(x) ==
    LET q == x \div UnitsPerCent
        r == x % UnitsPerCent
    IN  IF 2 * r < UnitsPerCent THEN q * UnitsPerCent
        ELSE IF 2 * r > UnitsPerCent THEN (q + 1) * UnitsPerCent
        ELSE IF q % 2 = 0 THEN q * UnitsPerCent
        ELSE (q + 1) * UnitsPerCent

\* An optional value: None is <<>>, a value v is <<v>>.
None == <<>>
Some(v) == <<v>>

----------------------------------------------------------------------------
(* What a call produces: the returned value, or the exception raised *)

Returned(v) == [raised |-> FALSE, value |-> v]
Raised(e) == [raised |-> TRUE, value |-> e]
NoResult == Returned(None)

----------------------------------------------------------------------------
(* simplify_debts, app.py 431-448 *)

\* member_map.get(mid, '?')
AllNames == <<"Ann", "Bob", "Cid", "Dee", "Eve", "Fay", "Gus", "Hal">>
UnknownName == "?"

MemberMapGet(mm, mid) == IF mid \in DOMAIN mm THEN mm[mid] ELSE UnknownName

\* The ids of a mapping in dict iteration order (here: ascending id).
RECURSIVE ItemsOrder(_)
ItemsOrder(S) ==
    IF S = {} THEN <<>>
    ELSE LET m == CHOOSE x \in S : \A y \in S : x <= y
         IN  <<m>> \o ItemsOrder(S \ {m})

\* variant: every positive balance is a creditor's
IsCreditorBalanceAnyPositive(bal) == bal > 0

\* lines 434-435: a balance within the epsilon is on neither list
IsCreditorBalance(bal) == bal > EPS
IsDebtorBalance(bal) == bal < 0 - EPS

\* lines 433-435: the two lists, in iteration order of balances.items()
RECURSIVE PartitionCreditors(_, _)
PartitionCreditors(b, order) ==
    IF order = <<>> THEN <<>>
    ELSE LET mid == Head(order)
             rest == PartitionCreditors(b, Tail(order))
         IN  IF IsCreditorBalance(b[mid])
             THEN <<[mid |-> mid, rem |-> b[mid]]>> \o rest
             ELSE rest

RECURSIVE PartitionDebtors(_, _)
PartitionDebtors(b, order) ==
    IF order = <<>> THEN <<>>
    ELSE LET mid == Head(order)
             rest == PartitionDebtors(b, Tail(order))
         IN  IF IsCreditorBalance(b[mid]) THEN rest
             ELSE IF IsDebtorBalance(b[mid])
             THEN <<[mid |-> mid, rem |-> 0 - b[mid]]>> \o rest
             ELSE rest

\* variant: smallest remainder first
SortKeyBeforeAscending(a, b) == a.rem <= b.rem

\* list.sort(key=lambda x: -x[1]): stable, descending by remaining amount.
SortKeyBefore(a, b) == a.rem >= b.rem

RECURSIVE InsertSorted(_, _)
InsertSorted(x, s) ==
    IF s = <<>> THEN <<x>>
    ELSE IF SortKeyBefore(Head(s), x) THEN <<Head(s)>> \o InsertSorted(x, Tail(s))
    ELSE <<x>> \o s

RECURSIVE SortDesc(_)
SortDesc(s) ==
    IF s = <<>> THEN <<>>
    ELSE InsertSorted(s[Len(s)], SortDesc(SubSeq(s, 1, Len(s) - 1)))

\* line 441: a transfer is emitted only for an amount above the epsilon
EmitsTransfer(amount) == amount > EPS

\* variant: no party is ever passed
IsExhaustedNever(rem) == FALSE

\* lines 446-447: a party is passed once its remaining amount is below epsilon
IsExhausted(rem) == rem < EPS

\* variant: 'from' the creditor, 'to' the debtor
TransferReversed(mm, d, c, amount) ==
    [from |-> MemberMapGet(mm, c.mid), to |-> MemberMapGet(mm, d.mid),
     amount |-> Round2(amount)]

\* lines 442-443: the transfer appended to settlements
Transfer(mm, d, c, amount) ==
    [from |-> MemberMapGet(mm, d.mid), to |-> MemberMapGet(mm, c.mid),
     amount |-> Round2(amount)]

\* The state of the loop: the locals of simplify_debts.
LoopStart(b) ==
    [debtors |-> SortDesc(PartitionDebtors(b, ItemsOrder(DOMAIN b))),
     creditors |-> SortDesc(PartitionCreditors(b, ItemsOrder(DOMAIN b))),
     i |-> 1, j |-> 1, settlements |-> <<>>]

\* line 439: while i < len(debtors) and j < len(creditors)
LoopCondition(st) == st.i <= Len(st.debtors) /\ st.j <= Len(st.creditors)

\* variant: amount = debtors[i][1], the debtor's whole remainder
LoopBodyWholeDebt(st, mm) ==
    LET d == st.debtors[st.i]
        c == st.creditors[st.j]
        amount == d.rem
        drem == d.rem - amount
        crem == c.rem - amount
    IN  [debtors |-> [st.debtors EXCEPT ![st.i].rem = drem],
         creditors |-> [st.creditors EXCEPT ![st.j].rem = crem],
         i |-> IF IsExhausted(drem) THEN st.i + 1 ELSE st.i,
         j |-> IF IsExhausted(crem) THEN st.j + 1 ELSE st.j,
         settlements |-> IF EmitsTransfer(amount)
                         THEN Append(st.settlements, Transfer(mm, d, c, amount))
                         ELSE st.settlements]

\* lines 440-447: one iteration
LoopBody(st, mm) ==
    LET d == st.debtors[st.i]
        c == st.creditors[st.j]
        amount == Min(d.rem, c.rem)
        drem == d.rem - amount
        crem == c.rem - amount
    IN  [debtors |-> [st.debtors EXCEPT ![st.i].rem = drem],
         creditors |-> [st.creditors EXCEPT ![st.j].rem = crem],
         i |-> IF IsExhausted(drem) THEN st.i + 1 ELSE st.i,
         j |-> IF IsExhausted(crem) THEN st.j + 1 ELSE st.j,
         settlements |-> IF EmitsTransfer(amount)
                         THEN Append(st.settlements, Transfer(mm, d, c, amount))
                         ELSE st.settlements]

RECURSIVE RunLoop(_, _)
RunLoop(st, mm) ==
    IF LoopCondition(st) THEN RunLoop(LoopBody(st, mm), mm) ELSE st

\* simplify_debts(balances, member_map) as a function of its arguments
simplify_debts(b, mm) == RunLoop(LoopStart(b), mm).settlements

----------------------------------------------------------------------------
(* The inputs of simplify_debts *)

FullMap == [m \in Members |-> AllNames[m]]
\* two members of the group carry the same name
DupMap == [m \in Members |-> IF m = NumMembers THEN AllNames[1] ELSE AllNames[m]]
\* a participant id that is no member of the group (paid_by from the form)
PartialMap == [m \in Members \ {NumMembers} |-> AllNames[m]]
MemberMaps == {FullMap, DupMap, PartialMap}

\* {A: +100, B: -60, C: -40}
ExampleBalances ==
    (1 :> 10000 * UnitsPerCent) @@ (2 :> (0 - 6000) * UnitsPerCent)
        @@ (3 :> (0 - 4000) * UnitsPerCent)

NoLocals ==
    /\ creditors = <<>>
    /\ debtors = <<>>
    /\ i = 0
    /\ j = 0
    /\ settlements = <<>>

NoText == text = <<>> /\ pasted = <<>> /\ result = NoResult

NoLedger == returned = <<>> /\ split_expenses = <<>> /\ transactions = <<>>

\* A group's net balances sum to zero, or nearly so (custom shares need not
\* add up to the amount paid).
IsInputBalances(b) ==
    LET total == SumOver(b, DOMAIN b)
    IN  total <= MaxImbalance /\ 0 - MaxImbalance <= total

InitDebts ==
    /\ pc = "start"
    /\ \/ /\ balances \in [Members -> BalRange]
          /\ IsInputBalances(balances)
       \/ balances = ExampleBalances
    /\ member_map \in MemberMaps
    /\ NoLocals
    /\ NoText
    /\ store_category_map = <<>>
    /\ NoLedger

Locals == [debtors |-> debtors, creditors |-> creditors, i |-> i, j |-> j,
           settlements |-> settlements]

SetLocals(st) ==
    /\ debtors' = st.debtors
    /\ creditors' = st.creditors
    /\ i' = st.i
    /\ j' = st.j
    /\ settlements' = st.settlements

\* lines 432-438
Partition ==
    /\ pc = "start"
    /\ SetLocals(LoopStart(balances))
    /\ pc' = "loop"
    /\ UNCHANGED <<balances, member_map, text, pasted, result, standing>>

\* lines 439-447
LoopIteration ==
    /\ pc = "loop"
    /\ LoopCondition(Locals)
    /\ SetLocals(LoopBody(Locals, member_map))
    /\ UNCHANGED <<pc, balances, member_map, text, pasted, result, standing>>

\* line 448
ReturnSettlements ==
    /\ pc = "loop"
    /\ ~LoopCondition(Locals)
    /\ pc' = "done"
    /\ UNCHANGED <<balances, member_map, creditors, debtors, i, j, settlements,
                   text, pasted, result, standing>>

NextDebts == Partition \/ LoopIteration \/ ReturnSettlements

SpecDebts == InitDebts /\ [][NextDebts]_vars

\* the loop runs on: an iteration or the return that can be taken is taken
SpecDebtsFair ==
    SpecDebts /\ WF_vars(LoopIteration) /\ WF_vars(ReturnSettlements)

----------------------------------------------------------------------------
(* Strings.  A Python str is a sequence of characters, each written as a   *)
(* one-character string; a Cyrillic letter is written by its code point    *)
(* ("u0441").  The characters of the model's inputs are ASCII letters,     *)
(* digits, punctuation, space, tab and newline, and the Cyrillic letters   *)
(* of the keywords.                                                        *)

Digits == {"0", "1", "2", "3", "4", "5", "6", "7", "8", "9"}

DigitValue ==
    ("0" :> 0) @@ ("1" :> 1) @@ ("2" :> 2) @@ ("3" :> 3) @@ ("4" :> 4)
    @@ ("5" :> 5) @@ ("6" :> 6) @@ ("7" :> 7) @@ ("8" :> 8) @@ ("9" :> 9)

\* \s of the re module, and what str.strip() removes
Whitespace == {" ", "\t", "\n"}

\* str.lower() and re.IGNORECASE
LowerOf ==
    ("A" :> "a") @@ ("B" :> "b") @@ ("C" :> "c") @@ ("D" :> "d")
    @@ ("E" :> "e") @@ ("F" :> "f") @@ ("G" :> "g") @@ ("H" :> "h")
    @@ ("I" :> "i") @@ ("J" :> "j") @@ ("K" :> "k") @@ ("L" :> "l")
    @@ ("M" :> "m") @@ ("N" :> "n") @@ ("O" :> "o") @@ ("P" :> "p")
    @@ ("Q" :> "q") @@ ("R" :> "r") @@ ("S" :> "s") @@ ("T" :> "t")
    @@ ("U" :> "u") @@ ("V" :> "v") @@ ("W" :> "w") @@ ("X" :> "x")
    @@ ("Y" :> "y") @@ ("Z" :> "z") @@ ("u0410" :> "u0430")
    @@ ("u0411" :> "u0431") @@ ("u0412" :> "u0432")
    @@ ("u0413" :> "u0433") @@ ("u0414" :> "u0434")
    @@ ("u0415" :> "u0435") @@ ("u0416" :> "u0436")
    @@ ("u0417" :> "u0437") @@ ("u0418" :> "u0438")
    @@ ("u0419" :> "u0439") @@ ("u041a" :> "u043a")
    @@ ("u041b" :> "u043b") @@ ("u041c" :> "u043c")
    @@ ("u041d" :> "u043d") @@ ("u041e" :> "u043e")
    @@ ("u041f" :> "u043f") @@ ("u0420" :> "u0440")
    @@ ("u0421" :> "u0441") @@ ("u0422" :> "u0442")
    @@ ("u0423" :> "u0443") @@ ("u0424" :> "u0444")
    @@ ("u0425" :> "u0445") @@ ("u0426" :> "u0446")
    @@ ("u0427" :> "u0447") @@ ("u0428" :> "u0448")
    @@ ("u0429" :> "u0449") @@ ("u042a" :> "u044a")
    @@ ("u042b" :> "u044b") @@ ("u042c" :> "u044c")
    @@ ("u042d" :> "u044d") @@ ("u042e" :> "u044e")
    @@ ("u042f" :> "u044f")

Lower(c) == IF c \in DOMAIN LowerOf THEN LowerOf[c] ELSE c

LowerStr(s) == [k \in 1..Len(s) |-> Lower(s[k])]

\* w occurs in s at position p
StartsAt(s, p, w) ==
    /\ p >= 1
    /\ p + Len(w) - 1 <= Len(s)
    /\ \A k \in 1..Len(w) : s[p + k - 1] = w[k]

\* the same, ignoring case
StartsAtCI(s, p, w) ==
    /\ p >= 1
    /\ p + Len(w) - 1 <= Len(s)
    /\ \A k \in 1..Len(w) : Lower(s[p + k - 1]) = Lower(w[k])

\* w in s
Contains(s, w) == \E p \in 1..(Len(s) - Len(w) + 1) : StartsAt(s, p, w)

ContainsCI(s, w) == \E p \in 1..(Len(s) - Len(w) + 1) : StartsAtCI(s, p, w)

\* The least of the positions ps, 0 if there is none (re.search tries the
\* positions from the left).
FirstPosition(ps) ==
    IF ps = {} THEN 0 ELSE CHOOSE p \in ps : \A q \in ps : p <= q

\* The first index at or after p whose character is not of class C.
RECURSIVE RunEnd(_, _, _)
RunEnd(s, p, C) ==
    IF p <= Len(s) /\ s[p] \in C THEN RunEnd(s, p + 1, C) ELSE p

\* The last index at or before p whose character is not of class C.
RECURSIVE RunBegin(_, _, _)
RunBegin(s, p, C) ==
    IF p >= 1 /\ s[p] \in C THEN RunBegin(s, p - 1, C) ELSE p

\* str.strip()
Strip(s) == SubSeq(s, RunEnd(s, 1, Whitespace), RunBegin(s, Len(s), Whitespace))

\* s.replace(c, '') for every character c of C
Remove(s, C) == SelectSeq(s, LAMBDA c : c \notin C)

\* s.replace(a, b) for single characters
ReplaceChar(s, a, b) == [k \in 1..Len(s) |-> IF s[k] = a THEN b ELSE s[k]]

AllIn(s, C) == \A k \in 1..Len(s) : s[k] \in C

\* n digits at position p (\d{n})
DigitsAt(s, p, n) ==
    /\ p >= 1
    /\ p + n - 1 <= Len(s)
    /\ \A k \in 0..(n - 1) : s[p + k] \in Digits

----------------------------------------------------------------------------
(* Numbers and dates *)

RECURSIVE DigitsToInt(_)
DigitsToInt(s) ==
    IF s = <<>> THEN 0
    ELSE 10 * DigitsToInt(SubSeq(s, 1, Len(s) - 1)) + DigitValue[s[Len(s)]]

\* A parsed number is n / 10^e, with e the least possible.
Dec(sign, ip, fp) ==
    LET frac == SubSeq(fp, 1, RunBegin(fp, Len(fp), {"0"}))
    IN  [n |-> sign * DigitsToInt(ip \o frac), e |-> Len(frac)]

DecOfInt(k) == [n |-> k, e |-> 0]

\* float(s): None stands for ValueError.  Leading and trailing whitespace is
\* ignored; then a sign, digits, and at most one point among at least one
\* digit.  (Exponents, underscores, inf and nan are not in the inputs.)
PyFloat(s) ==
    LET Number(negative, ip, fp) ==
            IF AllIn(ip, Digits) /\ AllIn(fp, Digits) /\ Len(ip) + Len(fp) >= 1
            THEN Some(Dec(IF negative THEN 0 - 1 ELSE 1, ip, fp))
            ELSE None
        Split(negative, body, dot) ==
            IF dot = 0 THEN Number(negative, body, <<>>)
            ELSE Number(negative, SubSeq(body, 1, dot - 1),
                        SubSeq(body, dot + 1, Len(body)))
        Unsigned(negative, body) ==
            Split(negative, body,
                  FirstPosition({p \in 1..Len(body) : body[p] = "."}))
        Signed(t) ==
            IF t # <<>> /\ t[1] \in {"+", "-"}
            THEN Unsigned(t[1] = "-", Tail(t))
            ELSE Unsigned(FALSE, t)
    IN  Signed(Strip(s))

IsLeapYear(y) == (y % 4 = 0 /\ y % 100 # 0) \/ y % 400 = 0

DaysInMonth(y, m) ==
    IF m = 2 THEN (IF IsLeapYear(y) THEN 29 ELSE 28)
    ELSE IF m \in {4, 6, 9, 11} THEN 30 ELSE 31

\* datetime(year, month, day): None stands for ValueError
MakeDate(y, m, d) ==
    IF y >= 1 /\ m >= 1 /\ m <= 12 /\ d >= 1 /\ d <= DaysInMonth(y, m)
    THEN Some([year |-> y, month |-> m, day |-> d])
    ELSE None

\* r'(\d{2})[./](\d{2})[./](\d{4})' at position p
DateDMYAt(s, p) ==
    /\ DigitsAt(s, p, 2)
    /\ p + 9 <= Len(s)
    /\ s[p + 2] \in {".", "/"}
    /\ DigitsAt(s, p + 3, 2)
    /\ s[p + 5] \in {".", "/"}
    /\ DigitsAt(s, p + 6, 4)

\* datetime.strptime(dd.mm.yyyy, '%d.%m.%Y').date() on a match at p
StrptimeDMY(s, p) ==
    MakeDate(DigitsToInt(SubSeq(s, p + 6, p + 9)),
             DigitsToInt(SubSeq(s, p + 3, p + 4)),
             DigitsToInt(SubSeq(s, p, p + 1)))

----------------------------------------------------------------------------
(* guess_category, parsers.py 14-79 *)

\* The keyword table in insertion order.
STORE_CATEGORY_MAP == <<
    <<<<"k", "o", "r", "z", "i", "n", "k", "a">>, "Food">>,
    <<<<"m", "a", "k", "r", "o">>, "Food">>,
    <<<<"m", "a", "c", "r", "o">>, "Food">>,
    <<<<"h", "a", "v", "a", "s">>, "Food">>,
    <<<<"c", "a", "r", "r", "e", "f", "o", "u", "r">>, "Food">>,
    <<<<"m", "a", "g", "n", "u", "m">>, "Food">>,
    <<<<"m", "a", "g", "n", "i", "t">>, "Food">>,
    <<<<"o", "q", "t", "e", "p", "a">>, "Food">>,
    <<<<"e", "v", "o", "s">>, "Food">>,
    <<<<"b", "u", "r", "g", "e", "r">>, "Food">>,
    <<<<"r", "e", "s", "t", "a", "u", "r", "a", "n", "t">>, "Food">>,
    <<<<"r", "e", "s", "t", "o", "r", "a", "n">>, "Food">>,
    <<<<"c", "a", "f", "e">>, "Food">>,
    <<<<"c", "o", "f", "f", "e", "e">>, "Food">>,
    <<<<"k", "o", "f", "e">>, "Food">>,
    <<<<"s", "t", "o", "l", "o", "v", "a", "y", "a">>, "Food">>,
    <<<<"o", "s", "h", "x", "o", "n", "a">>, "Food">>,
    <<<<"l", "a", "v", "a", "s", "h">>, "Food">>,
    <<<<"c", "h", "o", "y", "x", "o", "n", "a">>, "Food">>,
    <<<<"b", "a", "z", "a", "r">>, "Food">>,
    <<<<"s", "u", "p", "e", "r", "m", "a", "r", "k", "e", "t">>, "Food">>,
    <<<<"m", "i", "n", "i", "m", "a", "r", "k", "e", "t">>, "Food">>,
    <<<<"p", "r", "o", "d", "u", "k", "t", "i">>, "Food">>,
    <<<<"b", "a", "k", "k", "a", "l", "e", "j", "a">>, "Food">>,
    <<<<"n", "o", "n">>, "Food">>,
    <<<<"g", "o", "'", "s", "h", "t">>, "Food">>,
    <<<<"m", "e", "v", "a">>, "Food">>,
    <<<<"y", "a", "n", "d", "e", "x", " ", "g", "o">>, "Transport">>,
    <<<<"y", "a", "n", "d", "e", "x", " ", "t", "a", "x", "i">>, "Transport">>,
    <<<<"u", "b", "e", "r">>, "Transport">>,
    <<<<"m", "y", "c", "a", "r">>, "Transport">>,
    <<<<"u", "z", "a", "i", "r", "w", "a", "y", "s">>, "Transport">>,
    <<<<"a", "v", "t", "o">>, "Transport">>,
    <<<<"b", "e", "n", "z", "i", "n">>, "Transport">>,
    <<<<"t", "o", "p", "l", "i", "v", "o">>, "Transport">>,
    <<<<"z", "a", "p", "r", "a", "v", "k", "a">>, "Transport">>,
    <<<<"g", "a", "z", " ", "s", "t", "a", "t", "i", "o", "n">>, "Transport">>,
    <<<<"m", "e", "t", "r", "o">>, "Transport">>,
    <<<<"t", "a", "k", "s", "i">>, "Transport">>,
    <<<<"b", "e", "e", "l", "i", "n", "e">>, "Utilities">>,
    <<<<"u", "c", "e", "l", "l">>, "Utilities">>,
    <<<<"m", "o", "b", "i", "u", "z">>, "Utilities">>,
    <<<<"u", "z", "m", "o", "b", "i", "l", "e">>, "Utilities">>,
    <<<<"t", "u", "r", "o", "n", " ", "t", "e", "l", "e", "c", "o", "m">>, "Utilities">>,
    <<<<"u", "z", "t", "e", "l", "e", "c", "o", "m">>, "Utilities">>,
    <<<<"e", "l", "e", "k", "t", "r">>, "Utilities">>,
    <<<<"k", "o", "m", "m", "u", "n", "a", "l">>, "Utilities">>,
    <<<<"i", "s", "s", "i", "q", "l", "i", "k">>, "Utilities">>,
    <<<<"s", "u", "v">>, "Utilities">>,
    <<<<"i", "n", "t", "e", "r", "n", "e", "t">>, "Utilities">>,
    <<<<"s", "u", "v", "o", "k", "a", "v", "a">>, "Utilities">>,
    <<<<"m", "e", "d", "i", "a", "p", "a", "r", "k">>, "Shopping">>,
    <<<<"t", "e", "x", "n", "o", "m", "a", "r", "t">>, "Shopping">>,
    <<<<"z", "a", "r", "a">>, "Shopping">>,
    <<<<"l", "c", "w", "a", "i", "k", "i", "k", "i">>, "Shopping">>,
    <<<<"s", "a", "m", "s", "u", "n", "g">>, "Shopping">>,
    <<<<"a", "p", "p", "l", "e">>, "Shopping">>,
    <<<<"k", "i", "y", "i", "m">>, "Shopping">>,
    <<<<"p", "o", "y", "a", "b", "z", "a", "l">>, "Shopping">>,
    <<<<"m", "e", "b", "e", "l">>, "Shopping">>,
    <<<<"b", "o", "z", "o", "r">>, "Shopping">>,
    <<<<"a", "p", "t", "e", "k", "a">>, "Health">>,
    <<<<"d", "o", "r", "i", "x", "o", "n", "a">>, "Health">>,
    <<<<"p", "h", "a", "r", "m", "a", "c", "y">>, "Health">>,
    <<<<"k", "l", "i", "n", "i", "k", "a">>, "Health">>,
    <<<<"h", "o", "s", "p", "i", "t", "a", "l">>, "Health">>,
    <<<<"p", "o", "l", "i", "k", "l", "i", "n", "i", "k", "a">>, "Health">>,
    <<<<"s", "t", "o", "m", "a", "t", "o", "l", "o", "g">>, "Health">>,
    <<<<"l", "a", "b", "a", "r", "a", "t", "o", "r", "i", "y", "a">>, "Health">>,
    <<<<"k", "i", "n", "o", "t", "e", "a", "t", "r">>, "Entertainment">>,
    <<<<"c", "i", "n", "e", "m", "a">>, "Entertainment">>,
    <<<<"m", "a", "g", "i", "c", " ", "c", "i", "t", "y">>, "Entertainment">>,
    <<<<"a", "q", "u", "a", "p", "a", "r", "k">>, "Entertainment">>,
    <<<<"p", "a", "r", "k">>, "Entertainment">>,
    <<<<"k", "o", "n", "s", "e", "r", "t">>, "Entertainment">>,
    <<<<"k", "i", "t", "o", "b">>, "Education">>,
    <<<<"b", "o", "o", "k">>, "Education">>,
    <<<<"k", "u", "r", "s">>, "Education">>,
    <<<<"t", "a", "l", "i", "m">>, "Education">>,
    <<<<"u", "n", "i", "v", "e", "r", "s", "i", "t", "e", "t">>, "Education">>,
    <<<<"m", "a", "k", "t", "a", "b">>, "Education">>,
    <<<<"r", "e", "p", "e", "t", "i", "t", "o", "r">>, "Education">>,
    <<<<"i", "j", "a", "r", "a">>, "Housing">>,
    <<<<"a", "r", "e", "n", "d", "a">>, "Housing">>,
    <<<<"k", "v", "a", "r", "t", "i", "r", "a">>, "Housing">>
>>

\* variant: the last entry of the table that matches decides
RECURSIVE LastKeywordCategory(_, _)
LastKeywordCategory(name_lower, k) ==
    IF k > Len(store_category_map) THEN "Other"
    ELSE IF Contains(name_lower,
                     store_category_map[Len(store_category_map) + 1 - k][1])
         THEN store_category_map[Len(store_category_map) + 1 - k][2]
         ELSE LastKeywordCategory(name_lower, k + 1)

RECURSIVE FirstKeywordCategory(_, _)
FirstKeywordCategory(name_lower, k) ==
    IF k > Len(store_category_map) THEN "Other"
    ELSE IF Contains(name_lower, store_category_map[k][1])
         THEN store_category_map[k][2]
         ELSE FirstKeywordCategory(name_lower, k + 1)

\* guess_category(merchant_name), the argument being None or a string
guess_category(merchant_name) ==
    IF merchant_name = None \/ merchant_name = Some(<<>>) THEN "Other"
    ELSE FirstKeywordCategory(Strip(LowerStr(merchant_name[1])), 1)

----------------------------------------------------------------------------
(* parse_sms_uzcard, parsers.py 177-228 *)

\* r'[Kk]arta\s*\*(\d{4})' at position p: the index of group 1, or 0
KartaCardAt(s, p) ==
    IF s[p] \in {"K", "k"} /\ StartsAt(s, p + 1, <<"a", "r", "t", "a">>)
    THEN LET q == RunEnd(s, p + 5, Whitespace)
         IN  IF q <= Len(s) /\ s[q] = "*" /\ DigitsAt(s, q + 1, 4)
             THEN q + 1 ELSE 0
    ELSE 0

\* lines 189-191
UzcardCard(s) ==
    LET Digits4(g) == Some(<<"*">> \o SubSeq(s, g, g + 3))
        At(p) == IF p = 0 THEN None ELSE Digits4(KartaCardAt(s, p))
    IN  At(FirstPosition({q \in 1..Len(s) : KartaCardAt(s, q) # 0}))

\* (?:UZS|сум), ignoring case
CurrencyAt(s, p) ==
    \/ StartsAtCI(s, p, <<"U", "Z", "S">>)
    \/ StartsAtCI(s, p, <<"u0441", "u0443", "u043c">>)

\* [\d\s,]
AmountChars == Digits \cup Whitespace \cup {","}

\* r'[-+]?([\d\s,]+\.\d{2})\s*(?:UZS|сум)' at position p: None, or where the
\* match starts and where group 1 lies.  The run [\d\s,]+ is followed by a
\* point and \s* by a letter, so both runs are the longest ones.
UzcardAmountAt(s, p) ==
    LET Number(g, r) ==
            IF /\ r > g
               /\ r <= Len(s)
               /\ s[r] = "."
               /\ DigitsAt(s, r + 1, 2)
               /\ CurrencyAt(s, RunEnd(s, r + 3, Whitespace))
            THEN Some([start |-> p, from |-> g, to |-> r + 2])
            ELSE None
        From(g) == Number(g, RunEnd(s, g, AmountChars))
    IN  From(IF s[p] \in {"-", "+"} THEN p + 1 ELSE p)

\* variant: the last place the pattern matches instead of the first
UzcardAmountSearchLast(s) ==
    LET Last(ps) ==
            IF ps = {} THEN None
            ELSE UzcardAmountAt(s, CHOOSE q \in ps : \A r \in ps : r <= q)
    IN  Last({q \in 1..Len(s) : UzcardAmountAt(s, q) # None})

\* line 194: re.search returns the leftmost match
UzcardAmountSearch(s) ==
    LET At(p) == IF p = 0 THEN None ELSE UzcardAmountAt(s, p)
    IN  At(FirstPosition({q \in 1..Len(s) : UzcardAmountAt(s, q) # None}))

\* line 196: the matched number without thousands commas and spaces
StripThousands(s) == Remove(Remove(s, {","}), {" "})

\* line 200
UzcardIsIncome(s, start) ==
    \/ Contains(SubSeq(s, 1, start - 1), <<"+">>)
    \/ Contains(LowerStr(s), <<"p", "o", "p", "o", "l", "n", "e", "n", "i", "e">>)
    \/ Contains(LowerStr(s), <<"z", "a", "c", "h", "i", "s", "l", "e", "n", "i", "e">>)

\* The first index at or after p whose character is of class C, else Len(s)+1.
RECURSIVE FindChar(_, _, _)
FindChar(s, p, C) ==
    IF p > Len(s) \/ s[p] \in C THEN p ELSE FindChar(s, p + 1, C)

\* re.split(r'[.;]\s*', text): the parts of s from position p on
RECURSIVE SplitSegments(_, _)
SplitSegments(s, p) ==
    LET q == FindChar(s, p, {".", ";"})
    IN  IF q > Len(s) THEN <<SubSeq(s, p, Len(s))>>
        ELSE <<SubSeq(s, p, q - 1)>>
                 \o SplitSegments(s, RunEnd(s, q + 1, Whitespace))

\* r'\d{2}[./]\d{2}[./]\d{2,4}' at position p
DateShapeAt(s, p) ==
    /\ DigitsAt(s, p, 2)
    /\ p + 7 <= Len(s)
    /\ s[p + 2] \in {".", "/"}
    /\ DigitsAt(s, p + 3, 2)
    /\ s[p + 5] \in {".", "/"}
    /\ DigitsAt(s, p + 6, 2)

HasDateShape(s) == \E p \in 1..Len(s) : DateShapeAt(s, p)

\* line 209: the segment names the currency, the card, the balance or a date
UzcardNoise(part) ==
    \/ ContainsCI(part, <<"U", "Z", "S">>)
    \/ ContainsCI(part, <<"u0441", "u0443", "u043c">>)
    \/ ContainsCI(part, <<"K", "a", "r", "t", "a">>)
    \/ ContainsCI(part, <<"B", "a", "l", "a", "n", "s">>)
    \/ HasDateShape(part)

\* r'^[\d\s,.:+\-]+$'
PunctuationOnly(part) ==
    part # <<>> /\ AllIn(part, Digits \cup Whitespace \cup {",", ".", ":", "+", "-"})

\* lines 204-215 and 267-281: the first segment that qualifies as merchant
FirstMerchant(parts, noise) ==
    LET ok == {k \in 1..Len(parts) :
                  /\ Len(Strip(parts[k])) >= 2
                  /\ ~noise[k]
                  /\ ~PunctuationOnly(Strip(parts[k]))}
    IN  IF ok = {} THEN None
        ELSE Some(Strip(parts[CHOOSE k \in ok : \A l \in ok : k <= l]))

\* lines 218-223 and 284-291: the first dd.mm.yyyy, if it is a calendar date
SmsDate(s) ==
    LET At(p) == IF p = 0 THEN None ELSE StrptimeDMY(s, p)
    IN  At(FirstPosition({q \in 1..Len(s) : DateDMYAt(s, q)}))

\* line 197: float(amt_str), which is not guarded
UzcardFloat(amt_str) == PyFloat(amt_str)

parse_sms_uzcard(t) ==
    LET Record(m, amount, merchant) ==
            IF m # None /\ amount = None THEN Raised("ValueError")
            ELSE Returned(
                [amount |-> amount,
                 merchant |-> merchant,
                 date |-> SmsDate(t),
                 card |-> UzcardCard(t),
                 category |-> guess_category(merchant),
                 currency |-> "UZS",
                 type |-> IF m # None /\ UzcardIsIncome(t, m[1].start)
                          THEN "income" ELSE "expense",
                 description |-> IF merchant = None THEN <<>> ELSE merchant[1],
                 raw |-> t])
        Merchant(parts) ==
            FirstMerchant(parts,
                [k \in 1..Len(parts) |-> UzcardNoise(Strip(parts[k]))])
        Fields(m) ==
            Record(m,
                   IF m = None THEN None
                   ELSE UzcardFloat(
                            StripThousands(SubSeq(t, m[1].from, m[1].to))),
                   Merchant(SplitSegments(t, 1)))
    IN  Fields(UzcardAmountSearch(t))

----------------------------------------------------------------------------
(* parse_sms_humo, parsers.py 231-296 *)

\* r'HUMO\s*\*(\d{4})', ignoring case, at position p: the index of group 1, or 0
HumoCardAt(s, p) ==
    IF StartsAtCI(s, p, <<"H", "U", "M", "O">>)
    THEN LET q == RunEnd(s, p + 4, Whitespace)
         IN  IF q <= Len(s) /\ s[q] = "*" /\ DigitsAt(s, q + 1, 4)
             THEN q + 1 ELSE 0
    ELSE 0

\* lines 243-245
HumoCard(s) ==
    LET Digits4(g) ==
            Some(<<"H", "U", "M", "O", " ", "*">> \o SubSeq(s, g, g + 3))
        At(p) == IF p = 0 THEN None ELSE Digits4(HumoCardAt(s, p))
    IN  At(FirstPosition({q \in 1..Len(s) : HumoCardAt(s, q) # 0}))

\* line 248: r'popolnenie|zachislenie|kirim', ignoring case, anywhere
HumoIsIncome(s) ==
    \/ ContainsCI(s, <<"P", "o", "p", "o", "l", "n", "e", "n", "i", "e">>)
    \/ ContainsCI(s, <<"Z", "a", "c", "h", "i", "s", "l", "e", "n", "i", "e">>)
    \/ ContainsCI(s, <<"K", "i", "r", "i", "m">>)

\* (?:Spisanie|Popolnenie|Zachislenie|Oplata|Chiqim|Kirim)
ActionKeywords ==
    <<<<"S", "p", "i", "s", "a", "n", "i", "e">>,
      <<"P", "o", "p", "o", "l", "n", "e", "n", "i", "e">>,
      <<"Z", "a", "c", "h", "i", "s", "l", "e", "n", "i", "e">>,
      <<"O", "p", "l", "a", "t", "a">>,
      <<"C", "h", "i", "q", "i", "m">>,
      <<"K", "i", "r", "i", "m">>>>

\* r'([\d\s,]+(?:\.\d{2})?)\s*(?:UZS|сум)' with group 1 starting at g: the
\* index of the last character of group 1, or 0.  The run [\d\s,]+ is taken
\* as long as possible; a shorter run reaches the currency word only where
\* the longest one does.
HumoNumberEnd(s, g) ==
    LET End(r) ==
            IF r = g THEN 0
            ELSE IF /\ r <= Len(s)
                    /\ s[r] = "."
                    /\ DigitsAt(s, r + 1, 2)
                    /\ CurrencyAt(s, RunEnd(s, r + 3, Whitespace))
                 THEN r + 2
            ELSE IF CurrencyAt(s, r) THEN r - 1
            ELSE 0
    IN  End(RunEnd(s, g, AmountChars))

\* line 252-255: the keyword pattern at position p: None, or group 1.  \s+
\* takes all the whitespace after the keyword, unless nothing of [\d\s,]
\* follows it: then it leaves its last character to group 1.
HumoKeywordAmountAt(s, p) ==
    LET Group(g, e) == IF e = 0 THEN None ELSE Some([from |-> g, to |-> e])
        Number(w, g) ==
            IF g = w THEN None
            ELSE IF HumoNumberEnd(s, g) # 0 \/ g - w < 2
                 THEN Group(g, HumoNumberEnd(s, g))
            ELSE Group(g - 1, HumoNumberEnd(s, g - 1))
        After(w) == Number(w, RunEnd(s, w, Whitespace))
        Keyword(kws) ==
            IF kws = {} THEN None
            ELSE After(p + Len(ActionKeywords[CHOOSE k \in kws : TRUE]))
    IN  Keyword({k \in 1..Len(ActionKeywords) :
                    StartsAtCI(s, p, ActionKeywords[k])})

\* line 258: the bare pattern at position p
HumoBareAmountAt(s, p) ==
    LET Group(e) == IF e = 0 THEN None ELSE Some([from |-> p, to |-> e])
    IN  Group(HumoNumberEnd(s, p))

\* variant: the first number before the currency, keyword or not
HumoAmountSearchFirstNumber(s) ==
    LET Bare(b) == IF b = 0 THEN None ELSE HumoBareAmountAt(s, b)
    IN  Bare(FirstPosition({q \in 1..Len(s) : HumoBareAmountAt(s, q) # None}))

\* lines 252-258: the keyword pattern, and the bare one only if that fails
HumoAmountSearch(s) ==
    LET Bare(b) == IF b = 0 THEN None ELSE HumoBareAmountAt(s, b)
        Keyword(k) ==
            IF k # 0 THEN HumoKeywordAmountAt(s, k)
            ELSE Bare(FirstPosition(
                     {q \in 1..Len(s) : HumoBareAmountAt(s, q) # None}))
    IN  Keyword(FirstPosition(
            {q \in 1..Len(s) : HumoKeywordAmountAt(s, q) # None}))

\* lines 261-264: float(amt_str) under try/except ValueError
HumoFloat(amt_str) == PyFloat(amt_str)

\* lines 272-275
HumoNoise(part) ==
    \/ ContainsCI(part, <<"U", "Z", "S">>)
    \/ ContainsCI(part, <<"u0441", "u0443", "u043c">>)
    \/ ContainsCI(part, <<"H", "U", "M", "O">>)
    \/ ContainsCI(part, <<"O", "s", "t">>)
    \/ \E k \in 1..Len(ActionKeywords) : ContainsCI(part, ActionKeywords[k])
    \/ HasDateShape(part)

parse_sms_humo(t) ==
    LET Record(amount, merchant) ==
            Returned(
                [amount |-> amount,
                 merchant |-> merchant,
                 date |-> SmsDate(t),
                 card |-> HumoCard(t),
                 category |-> guess_category(merchant),
                 currency |-> "UZS",
                 type |-> IF HumoIsIncome(t) THEN "income" ELSE "expense",
                 description |-> IF merchant = None THEN <<>> ELSE merchant[1],
                 raw |-> t])
        Merchant(parts) ==
            FirstMerchant(parts,
                [k \in 1..Len(parts) |-> HumoNoise(Strip(parts[k]))])
        Fields(m) ==
            Record(IF m = None THEN None
                   ELSE HumoFloat(
                            StripThousands(SubSeq(t, m[1].from, m[1].to))),
                   Merchant(SplitSegments(t, 1)))
    IN  Fields(HumoAmountSearch(t))

----------------------------------------------------------------------------
(* parse_sms_bulk, parsers.py 299-332 *)

\* The last newline of the whitespace run that follows position q, or 0.
LastNewlineAfter(s, q) ==
    LET r == RunEnd(s, q + 1, Whitespace)
        nl == {k \in (q + 1)..(r - 1) : s[k] = "\n"}
    IN  IF nl = {} THEN 0 ELSE CHOOSE k \in nl : \A l \in nl : l <= k

\* r'\n\s*\n' at position q
BlankLineAt(s, q) == s[q] = "\n" /\ LastNewlineAfter(s, q) # 0

\* line 311: re.split(r'\n\s*\n', s), the parts of s from position p on
RECURSIVE SplitBlankLines(_, _)
SplitBlankLines(s, p) ==
    LET Cut(q) ==
            <<SubSeq(s, p, q - 1)>>
                \o SplitBlankLines(s, LastNewlineAfter(s, q) + 1)
        At(qs) ==
            IF qs = {} THEN <<SubSeq(s, p, Len(s))>>
            ELSE Cut(CHOOSE x \in qs : \A y \in qs : x <= y)
    IN  At({q \in p..Len(s) : BlankLineAt(s, q)})

\* r'(?:Karta|HUMO)\s*\*\d{4}', ignoring case, at position p
CardMarkerAt(s, p) ==
    LET Star(q) == q <= Len(s) /\ s[q] = "*" /\ DigitsAt(s, q + 1, 4)
        After(w) == w # 0 /\ Star(RunEnd(s, w, Whitespace))
    IN  After(IF StartsAtCI(s, p, <<"K", "a", "r", "t", "a">>) THEN p + 5
              ELSE IF StartsAtCI(s, p, <<"H", "U", "M", "O">>) THEN p + 4
              ELSE 0)

\* variant: no split at the card markers
SplitAtMarkersNever(s, p) == <<SubSeq(s, p, Len(s))>>

\* line 315: re.split on the empty match before each card marker; the parts
\* of s from position p on, the next marker being looked for after p
RECURSIVE SplitAtMarkers(_, _)
SplitAtMarkers(s, p) ==
    LET Cut(q) == <<SubSeq(s, p, q - 1)>> \o SplitAtMarkers(s, q)
        At(qs) ==
            IF qs = {} THEN <<SubSeq(s, p, Len(s))>>
            ELSE Cut(CHOOSE x \in qs : \A y \in qs : x <= y)
    IN  At({q \in (p + 1)..Len(s) : CardMarkerAt(s, q)})

\* line 316 and 319-321: strip every chunk and drop the empty ones
StripChunks(chunks) ==
    SelectSeq([k \in 1..Len(chunks) |-> Strip(chunks[k])], LAMBDA c : c # <<>>)

\* lines 311-316
BulkChunks(text_block) ==
    LET ByMarker(s, parts) ==
            StripChunks(IF CardMarkerAt(s, 1) THEN <<<<>>>> \o parts ELSE parts)
        ByBlank(s, parts) ==
            IF Len(parts) = 1 THEN ByMarker(s, SplitAtMarkers(s, 1))
            ELSE StripChunks(parts)
        Stripped(s) == ByBlank(s, SplitBlankLines(s, 1))
    IN  Stripped(Strip(text_block))

\* variant: the keyword as written, without lower()
IsHumoChunkAsWritten(chunk) == Contains(chunk, <<"h", "u", "m", "o">>)

\* lines 322-328: which extractor a chunk goes to
IsHumoChunk(chunk) == Contains(LowerStr(chunk), <<"h", "u", "m", "o">>)

BulkParse(chunk) ==
    IF IsHumoChunk(chunk) THEN parse_sms_humo(chunk) ELSE parse_sms_uzcard(chunk)

\* line 329: parsed.get('amount') is true for an amount other than None and 0
IsTruthyAmount(amount) == amount # None /\ amount[1].n # 0

\* lines 318-332: the results of the chunks from the k-th on; an exception of
\* an extractor ends the call
RECURSIVE BulkResults(_, _, _)
BulkResults(chunks, k, results) ==
    LET Keep(parsed) ==
            IF parsed.raised THEN parsed
            ELSE BulkResults(chunks, k + 1,
                     IF IsTruthyAmount(parsed.value.amount)
                     THEN Append(results, parsed.value) ELSE results)
    IN  IF k > Len(chunks) THEN Returned(results)
        ELSE Keep(BulkParse(chunks[k]))

parse_sms_bulk(text_block) ==
    IF Strip(text_block) = <<>> THEN Returned(<<>>)
    ELSE BulkResults(BulkChunks(text_block), 1, <<>>)

----------------------------------------------------------------------------
(* parse_receipt_text, parsers.py 84-172 *)

\* str.split('\n'): the lines of s from position p on
RECURSIVE SplitLines(_, _)
SplitLines(s, p) ==
    LET q == FindChar(s, p, {"\n"})
    IN  IF q > Len(s) THEN <<SubSeq(s, p, Len(s))>>
        ELSE <<SubSeq(s, p, q - 1)>> \o SplitLines(s, q + 1)

\* (?:JAMI|ИТОГО|ИТОГ|TOTAL|ЖАМИ|HAMMASI|ВСЕГО)
TotalKeywords ==
    <<<<"J", "A", "M", "I">>,
      <<"u0418", "u0422", "u041e", "u0413", "u041e">>,
      <<"u0418", "u0422", "u041e", "u0413">>,
      <<"T", "O", "T", "A", "L">>,
      <<"u0416", "u0410", "u041c", "u0418">>,
      <<"H", "A", "M", "M", "A", "S", "I">>,
      <<"u0412", "u0421", "u0415", "u0413", "u041e">>>>

\* [\d\s.,]
TotalChars == Digits \cup Whitespace \cup {".", ","}

\* r'\s*[:=]?\s*([\d\s.,]+)' after a keyword that ends before w: None, or
\* group 1.  Each of \s*, [:=]? and \s* takes what it can; when no character
\* of [\d\s.,] is left for group 1, the whitespace before gives up its last
\* character to it.
TotalGroupAfter(s, w) ==
    LET Group(a, c, b) ==
            IF b <= Len(s) /\ s[b] \in TotalChars
            THEN Some([from |-> b, to |-> RunEnd(s, b, TotalChars) - 1])
            ELSE IF b > c THEN Some([from |-> b - 1, to |-> b - 1])
            ELSE IF a > w THEN Some([from |-> a - 1, to |-> a - 1])
            ELSE None
        Mark(a, c) == Group(a, c, RunEnd(s, c, Whitespace))
        Space(a) ==
            Mark(a, IF a <= Len(s) /\ s[a] \in {":", "="} THEN a + 1 ELSE a)
    IN  Space(RunEnd(s, w, Whitespace))

\* total_pattern at position p of a line: None, or group 1
TotalMatchAt(s, p) ==
    LET Group(ks) ==
            IF ks = {} THEN None
            ELSE TotalGroupAfter(s,
                     p + Len(TotalKeywords[CHOOSE k \in ks : \A l \in ks : k <= l]))
    IN  Group({k \in 1..Len(TotalKeywords) :
                  /\ StartsAtCI(s, p, TotalKeywords[k])
                  /\ TotalGroupAfter(s, p + Len(TotalKeywords[k])) # None})

\* line 105: total_pattern.search(line)
TotalSearch(line) ==
    LET At(p) == IF p = 0 THEN None ELSE TotalMatchAt(line, p)
    IN  At(FirstPosition({q \in 1..Len(line) : TotalMatchAt(line, q) # None}))

\* variant: a single dot is always a decimal point
IsThousandsDotNever(s) == FALSE

\* r'^\d+\.\d{3}$'
IsThousandsDot(s) ==
    /\ Len(s) >= 5
    /\ s[Len(s) - 3] = "."
    /\ AllIn(SubSeq(s, 1, Len(s) - 4), Digits)
    /\ AllIn(SubSeq(s, Len(s) - 2, Len(s)), Digits)

\* lines 107-114: the matched number, normalised
NormalizeAmount(group) ==
    LET Joined(undotted) ==
            IF Len(SelectSeq(undotted, LAMBDA ch : ch = ".")) >= 2
            THEN Remove(undotted, {"."})
            ELSE undotted
        Undotted(cleaned) ==
            Joined(IF IsThousandsDot(cleaned) THEN Remove(cleaned, {"."})
                   ELSE cleaned)
    IN  Undotted(ReplaceChar(Remove(group, {" "}), ",", "."))

\* variant: the ValueError of float() is not caught
TotalUnparsedRaises(lines, k) == Raised("ValueError")

\* lines 104-119: the lines from the k-th up to the first; a line whose
\* number float() rejects is passed over (except ValueError: continue)
RECURSIVE TotalScan(_, _)
TotalUnparsed(lines, k) == TotalScan(lines, k - 1)

TotalScan(lines, k) ==
    LET Parsed(amount) ==
            IF amount # None THEN Returned(amount) ELSE TotalUnparsed(lines, k)
        Matched(m) ==
            IF m = None THEN TotalScan(lines, k - 1)
            ELSE Parsed(PyFloat(NormalizeAmount(
                            SubSeq(lines[k], m[1].from, m[1].to))))
    IN  IF k = 0 THEN Returned(None) ELSE Matched(TotalSearch(lines[k]))

\* n / 10^e as a number of 10^-scale
Pow10(k) == IF k = 0 THEN 1 ELSE IF k = 1 THEN 10 ELSE IF k = 2 THEN 100
            ELSE IF k = 3 THEN 1000 ELSE 10000

DecLess(x, y) == x.n * Pow10(y.e) < y.n * Pow10(x.e)

\* r'([\d\s]{1,15}[.,]\d{2})' at position p: 0, or the index after the match
DecimalAt(s, p) ==
    LET r == RunEnd(s, p, Digits \cup Whitespace)
    IN  IF /\ r > p
           /\ r - p <= 15
           /\ r <= Len(s)
           /\ s[r] \in {".", ","}
           /\ DigitsAt(s, r + 1, 2)
        THEN r + 3 ELSE 0

\* lines 125-130: re.finditer over one line, from position p on; a number
\* float() rejects is left out
RECURSIVE LineDecimals(_, _)
LineDecimals(s, p) ==
    LET From(r) ==
            IF r = 0 THEN LineDecimals(s, p + 1)
            ELSE PyFloat(ReplaceChar(
                     Remove(SubSeq(s, p, r - 1), {" "}), ",", "."))
                     \o LineDecimals(s, r)
    IN  IF p > Len(s) THEN <<>> ELSE From(DecimalAt(s, p))

RECURSIVE AllDecimals(_, _)
AllDecimals(lines, k) ==
    IF k > Len(lines) THEN <<>>
    ELSE LineDecimals(lines[k], 1) \o AllDecimals(lines, k + 1)

\* max(numbers)
RECURSIVE MaxDec(_)
MaxDec(numbers) ==
    IF Len(numbers) = 1 THEN numbers[1]
    ELSE LET rest == MaxDec(Tail(numbers))
         IN  IF DecLess(numbers[1], rest) THEN rest ELSE numbers[1]

\* lines 122-132
FallbackAmount(lines) ==
    LET Largest(numbers) ==
            IF numbers = <<>> THEN None ELSE Some(MaxDec(numbers))
    IN  Largest(AllDecimals(lines, 1))

\* lines 99-132
ReceiptAmount(lines) ==
    LET OrFallback(total) ==
            IF total.raised THEN total
            ELSE IF total.value # None THEN total
            ELSE Returned(FallbackAmount(lines))
    IN  OrFallback(TotalScan(lines, Len(lines)))

\* \w: a letter, a digit or the underscore
WordChars ==
    Digits \cup DOMAIN LowerOf \cup {LowerOf[c] : c \in DOMAIN LowerOf} \cup {"_"}

\* r'(\d{2})[./](\d{2})[./](\d{2})\b' at position p
DateDMY2At(s, p) ==
    /\ DateShapeAt(s, p)
    /\ (p + 8 > Len(s) \/ s[p + 8] \notin WordChars)

\* '%y': 69-99 are 1969-1999, 00-68 are 2000-2068
TwoDigitYear(yy) == IF yy >= 69 THEN 1900 + yy ELSE 2000 + yy

StrptimeDMY2(s, p) ==
    MakeDate(TwoDigitYear(DigitsToInt(SubSeq(s, p + 6, p + 7))),
             DigitsToInt(SubSeq(s, p + 3, p + 4)),
             DigitsToInt(SubSeq(s, p, p + 1)))

\* r'(\d{4})-(\d{2})-(\d{2})' at position p
DateYMDAt(s, p) ==
    /\ DigitsAt(s, p, 4)
    /\ p + 9 <= Len(s)
    /\ s[p + 4] = "-"
    /\ DigitsAt(s, p + 5, 2)
    /\ s[p + 7] = "-"
    /\ DigitsAt(s, p + 8, 2)

StrptimeYMD(s, p) ==
    MakeDate(DigitsToInt(SubSeq(s, p, p + 3)),
             DigitsToInt(SubSeq(s, p + 5, p + 6)),
             DigitsToInt(SubSeq(s, p + 8, p + 9)))

\* lines 141-149: the patterns in order on one line, each on its first match;
\* a match that is no calendar date is passed over (except ValueError: continue)
DateUnparsed(rest) == rest

LineDate(line) ==
    LET YMD(p) ==
            IF p = 0 THEN Returned(None)
            ELSE IF StrptimeYMD(line, p) # None
                 THEN Returned(StrptimeYMD(line, p))
            ELSE DateUnparsed(Returned(None))
        DMY2(p) ==
            IF p # 0 /\ StrptimeDMY2(line, p) # None
            THEN Returned(StrptimeDMY2(line, p))
            ELSE IF p = 0
                 THEN YMD(FirstPosition({q \in 1..Len(line) : DateYMDAt(line, q)}))
            ELSE DateUnparsed(
                     YMD(FirstPosition({q \in 1..Len(line) : DateYMDAt(line, q)})))
        DMY(p) ==
            IF p # 0 /\ StrptimeDMY(line, p) # None
            THEN Returned(StrptimeDMY(line, p))
            ELSE IF p = 0
                 THEN DMY2(FirstPosition({q \in 1..Len(line) : DateDMY2At(line, q)}))
            ELSE DateUnparsed(
                     DMY2(FirstPosition({q \in 1..Len(line) : DateDMY2At(line, q)})))
    IN  DMY(FirstPosition({q \in 1..Len(line) : DateDMYAt(line, q)}))

\* lines 140-151: the lines from the k-th on, top to bottom
RECURSIVE ReceiptDate(_, _)
ReceiptDate(lines, k) ==
    LET Found(d) ==
            IF d.raised \/ d.value # None THEN d ELSE ReceiptDate(lines, k + 1)
    IN  IF k > Len(lines) THEN Returned(None) ELSE Found(LineDate(lines[k]))

\* line 154
SkipWords ==
    {<<"c", "h", "e", "k">>,
     <<"c", "h", "e", "c", "k">>,
     <<"k", "v", "i", "t", "a", "n", "t", "s", "i", "y", "a">>,
     <<"r", "e", "c", "e", "i", "p", "t">>,
     <<"i", "n", "n">>,
     <<"q", "q", "s">>,
     <<"s", "t", "i", "r">>}

\* r'^[\d\s.,:\-/]+$'
NumericLine(s) ==
    s # <<>> /\ AllIn(s, Digits \cup Whitespace \cup {".", ",", ":", "-", "/"})

\* lines 155-161
ReceiptMerchant(lines) ==
    LET ok == {k \in 1..Min(5, Len(lines)) :
                  /\ Len(Strip(lines[k])) > 2
                  /\ ~NumericLine(Strip(lines[k]))
                  /\ \A w \in SkipWords : ~Contains(LowerStr(Strip(lines[k])), w)}
    IN  IF ok = {} THEN None
        ELSE Some(Strip(lines[CHOOSE k \in ok : \A l \in ok : k <= l]))

\* variant: the three capitals as written, without upper()
ReceiptCurrencyAsWritten(ocr_text) ==
    IF Contains(ocr_text, <<"U", "S", "D">>) \/ Contains(ocr_text, <<"$">>)
    THEN "USD" ELSE "UZS"

\* lines 168-170.  'USD' in ocr_text.upper() is an occurrence of the three
\* letters in any case.
ReceiptCurrency(ocr_text) ==
    IF ContainsCI(ocr_text, <<"U", "S", "D">>) \/ Contains(ocr_text, <<"$">>)
    THEN "USD" ELSE "UZS"

parse_receipt_text(ocr_text) ==
    LET Record(amount, date, merchant) ==
            IF amount.raised THEN amount
            ELSE IF date.raised THEN date
            ELSE Returned(
                [amount |-> amount.value,
                 date |-> date.value,
                 merchant |-> merchant,
                 category |-> guess_category(merchant),
                 currency |-> ReceiptCurrency(ocr_text),
                 raw_text |-> ocr_text])
        Fields(lines) ==
            Record(ReceiptAmount(lines), ReceiptDate(lines, 1),
                   ReceiptMerchant(lines))
    IN  Fields(SplitLines(Strip(ocr_text), 1))

----------------------------------------------------------------------------
(* parse_csv, parsers.py 337-440.  The argument is a str; it holds no quote *)
(* character and no carriage return, so csv.reader yields one row per line, *)
(* split at the delimiter.                                                  *)

\* lines 352-353
CsvDelimiter(t) == IF Contains(SplitLines(t, 1)[1], <<";">>) THEN ";" ELSE ","

\* the cells of a line from position p on
RECURSIVE SplitCells(_, _, _)
SplitCells(line, delimiter, p) ==
    LET q == FindChar(line, p, {delimiter})
    IN  IF q > Len(line) THEN <<SubSeq(line, p, Len(line))>>
        ELSE <<SubSeq(line, p, q - 1)>> \o SplitCells(line, delimiter, q + 1)

\* lines 355-356: list(csv.reader(...)); an empty line is the row [], and
\* the newline that ends the text starts no further row
CsvRows(t, delimiter) ==
    LET all == SplitLines(t, 1)
        lines == IF all[Len(all)] = <<>> THEN SubSeq(all, 1, Len(all) - 1) ELSE all
    IN  [k \in 1..Len(lines) |->
            IF lines[k] = <<>> THEN <<>> ELSE SplitCells(lines[k], delimiter, 1)]

\* lines 366-377: the header names of each column kind
DateHeaders ==
    {<<"d", "a", "t", "e">>,
     <<"u0434", "u0430", "u0442", "u0430">>,
     <<"s", "a", "n", "a">>,
     <<"t", "r", "a", "n", "s", "a", "c", "t", "i", "o", "n", " ", "d", "a", "t", "e">>,
     <<"u0434", "u0430", "u0442", "u0430", " ", "u043e", "u043f", "u0435", "u0440", "u0430", "u0446", "u0438", "u0438">>}
AmountHeaders ==
    {<<"a", "m", "o", "u", "n", "t">>,
     <<"u0441", "u0443", "u043c", "u043c", "u0430">>,
     <<"s", "u", "m", "m", "a">>,
     <<"m", "i", "q", "d", "o", "r">>,
     <<"s", "u", "m">>,
     <<"u0441", "u0443", "u043c", "u043c", "u0430", " ", "u043e", "u043f", "u0435", "u0440", "u0430", "u0446", "u0438", "u0438">>}
DescriptionHeaders ==
    {<<"d", "e", "s", "c", "r", "i", "p", "t", "i", "o", "n">>,
     <<"u043e", "u043f", "u0438", "u0441", "u0430", "u043d", "u0438", "u0435">>,
     <<"t", "a", "v", "s", "i", "f">>,
     <<"d", "e", "t", "a", "i", "l", "s">>,
     <<"m", "e", "r", "c", "h", "a", "n", "t">>,
     <<"u043d", "u0430", "u0437", "u043d", "u0430", "u0447", "u0435", "u043d", "u0438", "u0435">>,
     <<"u043d", "u0430", "u0438", "u043c", "u0435", "u043d", "u043e", "u0432", "u0430", "u043d", "u0438", "u0435">>}
CreditHeaders ==
    {<<"c", "r", "e", "d", "i", "t">>,
     <<"u043a", "u0440", "u0435", "u0434", "u0438", "u0442">>,
     <<"k", "i", "r", "i", "m">>,
     <<"u043f", "u0440", "u0438", "u0445", "u043e", "u0434">>}
DebitHeaders ==
    {<<"d", "e", "b", "i", "t">>,
     <<"u0434", "u0435", "u0431", "u0435", "u0442">>,
     <<"c", "h", "i", "q", "i", "m">>,
     <<"u0440", "u0430", "u0441", "u0445", "u043e", "u0434">>}
CurrencyHeaders ==
    {<<"c", "u", "r", "r", "e", "n", "c", "y">>,
     <<"u0432", "u0430", "u043b", "u044e", "u0442", "u0430">>,
     <<"v", "a", "l", "y", "u", "t", "a">>}

\* The column mapped to a kind: the last header cell that names it, 0 if none
\* (col_map has no such key).  Columns count from 1 here.
ColumnOf(row0, names) ==
    LET is == {k \in 1..Len(row0) : Strip(LowerStr(row0[k])) \in names}
    IN  IF is = {} THEN 0 ELSE CHOOSE k \in is : \A l \in is : l <= k

\* lines 361-377
ColMap(row0) ==
    [date |-> ColumnOf(row0, DateHeaders),
     amount |-> ColumnOf(row0, AmountHeaders),
     description |-> ColumnOf(row0, DescriptionHeaders),
     credit |-> ColumnOf(row0, CreditHeaders),
     debit |-> ColumnOf(row0, DebitHeaders),
     currency |-> ColumnOf(row0, CurrencyHeaders)]

\* 'x' in col_map and col_map['x'] < len(row)
HasCell(row, col) == col # 0 /\ col <= Len(row)

\* .replace(',', '').replace(' ', '').strip()
CsvNumber(cell) == Strip(StripThousands(cell))

\* variant: the sign read the other way round
CsvAmountTypeInverted(amt) == IF amt.n > 0 THEN "expense" ELSE "income"

\* line 394
CsvAmountType(amt) == IF amt.n > 0 THEN "income" ELSE "expense"

\* line 395: abs(amt)
CsvAmountMagnitude(amt) == [amt EXCEPT !.n = Abs(amt.n)]

\* variant: the credit and debit branch taken with one of the two columns
CsvAmountEitherColumn(row, col) ==
    IF HasCell(row, col.amount)
    THEN LET amt == PyFloat(CsvNumber(row[col.amount]))
         IN  IF amt = None THEN None
             ELSE Some([type |-> CsvAmountType(amt[1]),
                        amount |-> Some(CsvAmountMagnitude(amt[1]))])
    ELSE IF col.credit # 0 \/ col.debit # 0
    THEN LET credit_str == IF HasCell(row, col.credit)
                           THEN CsvNumber(row[col.credit]) ELSE <<>>
             debit_str == IF HasCell(row, col.debit)
                          THEN CsvNumber(row[col.debit]) ELSE <<>>
             credit == IF credit_str # <<>> THEN PyFloat(credit_str)
                       ELSE Some(DecOfInt(0))
             debit == IF debit_str # <<>> THEN PyFloat(debit_str)
                      ELSE Some(DecOfInt(0))
         IN  IF credit = None \/ debit = None THEN None
             ELSE IF credit[1].n > 0
                  THEN Some([type |-> "income", amount |-> credit])
             ELSE IF debit[1].n > 0
                  THEN Some([type |-> "expense", amount |-> debit])
             ELSE None
    ELSE Some([type |-> "expense", amount |-> None])

\* lines 390-413: None when the row is skipped (continue), else the type and
\* the amount, the amount being None when no column applies
CsvAmount(row, col) ==
    IF HasCell(row, col.amount)
    THEN LET amt == PyFloat(CsvNumber(row[col.amount]))
         IN  IF amt = None THEN None
             ELSE Some([type |-> CsvAmountType(amt[1]),
                        amount |-> Some(CsvAmountMagnitude(amt[1]))])
    ELSE IF col.credit # 0 /\ col.debit # 0
    THEN LET credit_str == IF HasCell(row, col.credit)
                           THEN CsvNumber(row[col.credit]) ELSE <<>>
             debit_str == IF HasCell(row, col.debit)
                          THEN CsvNumber(row[col.debit]) ELSE <<>>
             credit == IF credit_str # <<>> THEN PyFloat(credit_str)
                       ELSE Some(DecOfInt(0))
             debit == IF debit_str # <<>> THEN PyFloat(debit_str)
                      ELSE Some(DecOfInt(0))
         IN  IF credit = None \/ debit = None THEN None
             ELSE IF credit[1].n > 0
                  THEN Some([type |-> "income", amount |-> credit])
             ELSE IF debit[1].n > 0
                  THEN Some([type |-> "expense", amount |-> debit])
             ELSE None
    ELSE Some([type |-> "expense", amount |-> None])

\* datetime.strptime(date_str, fmt).date() for a format of day, month and
\* year in some order with one separator: the fields are digits, one or two
\* for day and month and four for the year.  order[k] is the field at place k.
StrptimeFields(date_str, sep, order) ==
    LET f == SplitCells(date_str, sep, 1)
        at(name) == f[CHOOSE k \in 1..3 : order[k] = name]
    IN  IF /\ Len(f) = 3
           /\ \A k \in 1..3 : f[k] # <<>> /\ AllIn(f[k], Digits)
           /\ Len(at("Y")) = 4
           /\ Len(at("m")) <= 2
           /\ Len(at("d")) <= 2
        THEN MakeDate(DigitsToInt(at("Y")), DigitsToInt(at("m")), DigitsToInt(at("d")))
        ELSE None

\* line 418
CsvDateFormats ==
    <<[sep |-> "-", order |-> <<"Y", "m", "d">>],
      [sep |-> ".", order |-> <<"d", "m", "Y">>],
      [sep |-> "/", order |-> <<"d", "m", "Y">>],
      [sep |-> "/", order |-> <<"m", "d", "Y">>],
      [sep |-> "-", order |-> <<"d", "m", "Y">>]>>

\* lines 418-423: the first format that parses, from the k-th on
RECURSIVE CsvDate(_, _)
CsvDate(date_str, k) ==
    IF k > Len(CsvDateFormats) THEN None
    ELSE LET d == StrptimeFields(date_str, CsvDateFormats[k].sep,
                                 CsvDateFormats[k].order)
         IN  IF d # None THEN d ELSE CsvDate(date_str, k + 1)

\* lines 433-435: curr.strip().upper() in ('USD', 'UZS')
CsvCurrency(cell) ==
    IF Strip(LowerStr(cell)) = <<"u", "s", "d">> THEN "USD" ELSE "UZS"

\* line 381
IsEmptyRow(row) == row = <<>> \/ \A k \in 1..Len(row) : Strip(row[k]) = <<>>

\* lines 381-438 for one row: None, or the entry appended to results
CsvEntry(row, col) ==
    IF IsEmptyRow(row) THEN None
    ELSE LET a == CsvAmount(row, col)
             description == IF HasCell(row, col.description)
                            THEN Strip(row[col.description]) ELSE <<>>
         IN  IF a = None THEN None
             ELSE IF ~IsTruthyAmount(a[1].amount) THEN None
             ELSE Some(
                 [amount |-> a[1].amount,
                  date |-> IF HasCell(row, col.date)
                           THEN CsvDate(Strip(row[col.date]), 1) ELSE None,
                  description |-> description,
                  merchant |-> IF HasCell(row, col.description)
                               THEN Some(description) ELSE None,
                  type |-> a[1].type,
                  category |-> IF HasCell(row, col.description)
                               THEN guess_category(Some(description))
                               ELSE "Other",
                  currency |-> IF HasCell(row, col.currency)
                               THEN CsvCurrency(row[col.currency]) ELSE "UZS"])

\* variant: the first row without an entry ends the loop (break)
RECURSIVE CsvResultsUntilBad(_, _, _)
CsvResultsUntilBad(rows, col, k) ==
    IF k > Len(rows) \/ CsvEntry(rows[k], col) = None THEN <<>>
    ELSE CsvEntry(rows[k], col) \o CsvResultsUntilBad(rows, col, k + 1)

\* lines 379-440: the entries of the rows from the k-th on
RECURSIVE CsvResults(_, _, _)
CsvResults(rows, col, k) ==
    IF k > Len(rows) THEN <<>>
    ELSE CsvEntry(rows[k], col) \o CsvResults(rows, col, k + 1)

parse_csv(file_content) ==
    LET rows == CsvRows(file_content, CsvDelimiter(file_content))
    IN  IF Len(rows) < 2 THEN Returned(<<>>)
        ELSE Returned(CsvResults(rows, ColMap(rows[1]), 2))

----------------------------------------------------------------------------
(* The inputs of the SMS extractors: messages put together from a card     *)
(* prefix, an amount phrase and a tail, and blocks of pasted messages.     *)

MaxChunks == 2

\* ""
Card_None ==
    <<>>

\* "Karta *1234: "
Card_Karta ==
    <<"K", "a", "r", "t", "a", " ", "*", "1", "2", "3", "4", ":", " ">>

\* "HUMO *5678: "
Card_Humo ==
    <<"H", "U", "M", "O", " ", "*", "5", "6", "7", "8", ":", " ">>

\* "-150,000.00 UZS"
Amt_Debit ==
    <<"-", "1", "5", "0", ",", "0", "0", "0", ".", "0", "0", " ", "U", "Z",
      "S">>

\* "+150,000.00 UZS"
Amt_Credit ==
    <<"+", "1", "5", "0", ",", "0", "0", "0", ".", "0", "0", " ", "U", "Z",
      "S">>

\* "0.00 UZS"
Amt_Zero ==
    <<"0", ".", "0", "0", " ", "U", "Z", "S">>

\* "1\t000.00 UZS"
Amt_Tab ==
    <<"1", "\t", "0", "0", "0", ".", "0", "0", " ", "U", "Z", "S">>

\* "Spisanie 250,000 UZS"
Amt_Spisanie ==
    <<"S", "p", "i", "s", "a", "n", "i", "e", " ", "2", "5", "0", ",", "0",
      "0", "0", " ", "U", "Z", "S">>

\* "Popolnenie 99.50 UZS"
Amt_Popolnenie ==
    <<"P", "o", "p", "o", "l", "n", "e", "n", "i", "e", " ", "9", "9", ".",
      "5", "0", " ", "U", "Z", "S">>

\* "Otkaz"
Amt_None ==
    <<"O", "t", "k", "a", "z">>

\* "Kirim otkaz"
Amt_KirimOnly ==
    <<"K", "i", "r", "i", "m", " ", "o", "t", "k", "a", "z">>

\* ""
Tail_None ==
    <<>>

\* ". Korzinka. 12.02.2026 14:30. Balans: 3,500,000.00 UZS"
Tail_Uzcard ==
    <<".", " ", "K", "o", "r", "z", "i", "n", "k", "a", ".", " ", "1", "2",
      ".", "0", "2", ".", "2", "0", "2", "6", " ", "1", "4", ":", "3", "0",
      ".", " ", "B", "a", "l", "a", "n", "s", ":", " ", "3", ",", "5", "0",
      "0", ",", "0", "0", "0", ".", "0", "0", " ", "U", "Z", "S">>

\* ". Macro. 31/02/2026. Ost: 1,200,000 UZS"
Tail_Humo ==
    <<".", " ", "M", "a", "c", "r", "o", ".", " ", "3", "1", "/", "0", "2",
      "/", "2", "0", "2", "6", ".", " ", "O", "s", "t", ":", " ", "1", ",",
      "2", "0", "0", ",", "0", "0", "0", " ", "U", "Z", "S">>

\* "\n\n"
Sep_Blank ==
    <<"\n", "\n">>

\* "\n \t\n"
Sep_BlankSpaces ==
    <<"\n", " ", "\t", "\n">>

\* "\n"
Sep_Newline ==
    <<"\n">>

\* " "
Sep_Space ==
    <<" ">>

SmsCards == {Card_None, Card_Karta, Card_Humo}
SmsAmounts == {Amt_Debit, Amt_Credit, Amt_Zero, Amt_Tab, Amt_Spisanie,
               Amt_Popolnenie, Amt_None, Amt_KirimOnly}
SmsTails == {Tail_None, Tail_Uzcard, Tail_Humo}
SmsSeparators == {Sep_Blank, Sep_BlankSpaces, Sep_Newline, Sep_Space}

Message(card, amt, tail) == [card |-> card, amt |-> amt, tail |-> tail]
MessageText(m) == m.card \o m.amt \o m.tail

Messages == {Message(c, a, t) : c \in SmsCards, a \in SmsAmounts, t \in SmsTails}

\* the messages that are pasted into blocks
BulkMessages ==
    {Message(Card_Karta, Amt_Debit, Tail_Uzcard),
     Message(Card_Humo, Amt_Spisanie, Tail_Humo),
     Message(Card_Karta, Amt_Tab, Tail_None),
     Message(Card_Karta, Amt_Zero, Tail_None),
     Message(Card_Humo, Amt_None, Tail_None),
     Message(Card_None, Amt_Debit, Tail_None)}

Block(msgs, sep) == [msgs |-> msgs, sep |-> sep]

RECURSIVE BlockText(_, _)
BlockText(msgs, sep) ==
    IF Len(msgs) = 1 THEN MessageText(msgs[1])
    ELSE MessageText(msgs[1]) \o sep \o BlockText(Tail(msgs), sep)

Blocks ==
    {Block(msgs, sep) :
        msgs \in UNION {[1..n -> BulkMessages] : n \in 2..MaxChunks},
        sep \in SmsSeparators}

\* messages that start with a card marker
MarkerMessages ==
    {Message(Card_Karta, Amt_Debit, Tail_Uzcard),
     Message(Card_Humo, Amt_Spisanie, Tail_Humo),
     Message(Card_Karta, Amt_Tab, Tail_None)}

\* three messages of which two are pasted with the separator sep and no
\* blank line, a blank line being the other separator, the blank-th
Mixed(msgs, sep, blank) == [msgs |-> msgs, sep |-> sep, blank |-> blank]

MixedBlocks ==
    {Mixed(msgs, sep, blank) : msgs \in [1..3 -> MarkerMessages],
                               sep \in {Sep_Newline, Sep_Space},
                               blank \in {1, 2}}

MixedText(b) ==
    MessageText(b.msgs[1]) \o (IF b.blank = 1 THEN Sep_Blank ELSE b.sep)
        \o MessageText(b.msgs[2]) \o (IF b.blank = 2 THEN Sep_Blank ELSE b.sep)
        \o MessageText(b.msgs[3])

InitSms ==
    /\ pc = "start"
    /\ \/ /\ pasted \in {Block(<<m>>, <<>>) : m \in Messages}
          /\ text = MessageText(pasted.msgs[1])
       \/ /\ pasted \in Blocks
          /\ text = BlockText(pasted.msgs, pasted.sep)
       \/ /\ pasted \in MixedBlocks
          /\ text = MixedText(pasted)
    /\ result = NoResult
    /\ balances = <<>>
    /\ member_map = <<>>
    /\ NoLocals
    /\ store_category_map = STORE_CATEGORY_MAP
    /\ NoLedger

CallParseSmsUzcard ==
    /\ pc = "start"
    /\ result' = parse_sms_uzcard(text)
    /\ pc' = "uzcard"
    /\ UNCHANGED <<balances, member_map, creditors, debtors, i, j, settlements,
                   text, pasted, standing>>

CallParseSmsHumo ==
    /\ pc = "start"
    /\ result' = parse_sms_humo(text)
    /\ pc' = "humo"
    /\ UNCHANGED <<balances, member_map, creditors, debtors, i, j, settlements,
                   text, pasted, standing>>

CallParseSmsBulk ==
    /\ pc = "start"
    /\ result' = parse_sms_bulk(text)
    /\ pc' = "bulk"
    /\ UNCHANGED <<balances, member_map, creditors, debtors, i, j, settlements,
                   text, pasted, standing>>

NextSms == CallParseSmsUzcard \/ CallParseSmsHumo \/ CallParseSmsBulk

SpecSms == InitSms /\ [][NextSms]_vars

----------------------------------------------------------------------------
(* The inputs of the receipt extractor: up to five lines, top to bottom a  *)
(* heading, an item, a date, a subtotal and a total.                       *)

\* "Korzinka"
Head_Shop ==
    <<"K", "o", "r", "z", "i", "n", "k", "a">>

\* "CHEK #12"
Head_Chek ==
    <<"C", "H", "E", "K", " ", "#", "1", "2">>

\* "12345"
Head_Number ==
    <<"1", "2", "3", "4", "5">>

\* "Non 12.50"
Item_Non ==
    <<"N", "o", "n", " ", "1", "2", ".", "5", "0">>

\* "Cola $ 7,00"
Item_Dollar ==
    <<"C", "o", "l", "a", " ", "$", " ", "7", ",", "0", "0">>

\* "Choy 3 USD"
Item_Usd ==
    <<"C", "h", "o", "y", " ", "3", " ", "U", "S", "D">>

\* "Choy 3 usd"
Item_UsdLower ==
    <<"C", "h", "o", "y", " ", "3", " ", "u", "s", "d">>

\* "12.02.2026"
Date_Dots ==
    <<"1", "2", ".", "0", "2", ".", "2", "0", "2", "6">>

\* "31.02.2026"
Date_Invalid ==
    <<"3", "1", ".", "0", "2", ".", "2", "0", "2", "6">>

\* "2026-02-12"
Date_Iso ==
    <<"2", "0", "2", "6", "-", "0", "2", "-", "1", "2">>

\* "12/02/26"
Date_Short ==
    <<"1", "2", "/", "0", "2", "/", "2", "6">>

\* "TOTAL: 5"
Upper_Total ==
    <<"T", "O", "T", "A", "L", ":", " ", "5">>

\* "\u0418\u0422\u041e\u0413\u041e: 150.000"
Tot_Itogo ==
    <<"u0418", "u0422", "u041e", "u0413", "u041e", ":", " ", "1", "5", "0",
      ".", "0", "0", "0">>

\* "TOTAL: 1.500.000"
Tot_Dots ==
    <<"T", "O", "T", "A", "L", ":", " ", "1", ".", "5", "0", "0", ".", "0",
      "0", "0">>

\* "Jami 150,50"
Tot_Comma ==
    <<"J", "a", "m", "i", " ", "1", "5", "0", ",", "5", "0">>

\* "TOTAL: 1\t2"
Tot_Tab ==
    <<"T", "O", "T", "A", "L", ":", " ", "1", "\t", "2">>

\* "Total items"
Tot_Words ==
    <<"T", "o", "t", "a", "l", " ", "i", "t", "e", "m", "s">>

\* stands for a line that is left out
NoLine == <<"no line">>

ReceiptHeads == {NoLine, Head_Shop, Head_Chek, Head_Number}
ReceiptItems == {NoLine, Item_Non, Item_Dollar, Item_Usd, Item_UsdLower}
ReceiptDates == {NoLine, Date_Dots, Date_Invalid, Date_Iso, Date_Short}
ReceiptSubtotals == {NoLine, Upper_Total}
ReceiptTotals == {NoLine, Tot_Itogo, Tot_Dots, Tot_Comma, Tot_Tab, Tot_Words}

ReceiptLines ==
    {SelectSeq(<<h, it, d, u, t>>, LAMBDA line : line # NoLine) :
        h \in ReceiptHeads, it \in ReceiptItems, d \in ReceiptDates,
        u \in ReceiptSubtotals, t \in ReceiptTotals}

\* '\n'.join(lines)
RECURSIVE JoinLines(_)
JoinLines(lines) ==
    IF lines = <<>> THEN <<>>
    ELSE IF Len(lines) = 1 THEN lines[1]
    ELSE lines[1] \o <<"\n">> \o JoinLines(Tail(lines))

InitReceipt ==
    /\ pc = "start"
    /\ pasted \in ReceiptLines
    /\ text = JoinLines(pasted)
    /\ result = NoResult
    /\ balances = <<>>
    /\ member_map = <<>>
    /\ NoLocals
    /\ store_category_map = STORE_CATEGORY_MAP
    /\ NoLedger

CallParseReceiptText ==
    /\ pc = "start"
    /\ result' = parse_receipt_text(text)
    /\ pc' = "receipt"
    /\ UNCHANGED <<balances, member_map, creditors, debtors, i, j, settlements,
                   text, pasted, standing>>

NextReceipt == CallParseReceiptText

SpecReceipt == InitReceipt /\ [][NextReceipt]_vars

----------------------------------------------------------------------------
(* The inputs of the CSV extractor: a header line and data rows of three   *)
(* cells (a date, a number, a third cell), some of them malformed.         *)

MaxRows == 2

\* "Date;Amount;Description"
Hdr_Amount ==
    <<"D", "a", "t", "e", ";", "A", "m", "o", "u", "n", "t", ";", "D", "e",
      "s", "c", "r", "i", "p", "t", "i", "o", "n">>

\* " DATE ; Amount;Merchant "
Hdr_Spaced ==
    <<" ", "D", "A", "T", "E", " ", ";", " ", "A", "m", "o", "u", "n", "t",
      ";", "M", "e", "r", "c", "h", "a", "n", "t", " ">>

\* "\u0414\u0430\u0442\u0430;\u0421\u0443\u043c\u043c\u0430;\u0412\u0430\u043b\u044e\u0442\u0430"
Hdr_Cyrillic ==
    <<"u0414", "u0430", "u0442", "u0430", ";", "u0421", "u0443", "u043c",
      "u043c", "u0430", ";", "u0412", "u0430", "u043b", "u044e", "u0442",
      "u0430">>

\* "Sana;Kirim;Chiqim"
Hdr_CreditDebit ==
    <<"S", "a", "n", "a", ";", "K", "i", "r", "i", "m", ";", "C", "h", "i",
      "q", "i", "m">>

\* "Date;Balance;Details"
Hdr_NoAmount ==
    <<"D", "a", "t", "e", ";", "B", "a", "l", "a", "n", "c", "e", ";", "D",
      "e", "t", "a", "i", "l", "s">>

\* "Sana;Kirim;Izoh"
Hdr_CreditOnly ==
    <<"S", "a", "n", "a", ";", "K", "i", "r", "i", "m", ";", "I", "z", "o", "h">>

\* "Date;Details;Debit"
Hdr_DebitOnly ==
    <<"D", "a", "t", "e", ";", "D", "e", "t", "a", "i", "l", "s", ";", "D", "e", "b", "i", "t">>

\* "date,amount,description"
Hdr_Comma ==
    <<"d", "a", "t", "e", ",", "a", "m", "o", "u", "n", "t", ",", "d", "e",
      "s", "c", "r", "i", "p", "t", "i", "o", "n">>

\* "2026-01-01;-45,000;Korzinka"
Row_Expense ==
    <<"2", "0", "2", "6", "-", "0", "1", "-", "0", "1", ";", "-", "4", "5",
      ",", "0", "0", "0", ";", "K", "o", "r", "z", "i", "n", "k", "a">>

\* "31/12/2026;45 000.50;Yandex Go"
Row_Income ==
    <<"3", "1", "/", "1", "2", "/", "2", "0", "2", "6", ";", "4", "5", " ",
      "0", "0", "0", ".", "5", "0", ";", "Y", "a", "n", "d", "e", "x", " ",
      "G", "o">>

\* "12.02.2026;0;500"
Row_Zero ==
    <<"1", "2", ".", "0", "2", ".", "2", "0", "2", "6", ";", "0", ";", "5",
      "0", "0">>

\* "bad;abc;12"
Row_Text ==
    <<"b", "a", "d", ";", "a", "b", "c", ";", "1", "2">>

\* ";;"
Row_Blank ==
    <<";", ";">>

\* "2026-01-01"
Row_Short ==
    <<"2", "0", "2", "6", "-", "0", "1", "-", "0", "1">>

\* ""
Row_EmptyLine ==
    <<>>

\* "1.2.2026;+12.5;"
Row_Plus ==
    <<"1", ".", "2", ".", "2", "0", "2", "6", ";", "+", "1", "2", ".", "5",
      ";">>

\* "2026-13-01;700;-3"
Row_BadMonth ==
    <<"2", "0", "2", "6", "-", "1", "3", "-", "0", "1", ";", "7", "0", "0",
      ";", "-", "3">>

\* "01/13/2026;1,000;usd"
Row_Usd ==
    <<"0", "1", "/", "1", "3", "/", "2", "0", "2", "6", ";", "1", ",", "0",
      "0", "0", ";", "u", "s", "d">>

CsvHeaders == {Hdr_Amount, Hdr_Spaced, Hdr_Cyrillic, Hdr_CreditDebit,
               Hdr_NoAmount, Hdr_CreditOnly, Hdr_DebitOnly, Hdr_Comma}
CsvDataRows == {Row_Expense, Row_Income, Row_Zero, Row_Text, Row_Blank,
                Row_Short, Row_EmptyLine, Row_Plus, Row_BadMonth, Row_Usd}

Table(header, rows) == [header |-> header, rows |-> rows]

Tables ==
    {Table(h, rows) :
        h \in CsvHeaders,
        rows \in UNION {[1..n -> CsvDataRows] : n \in 0..MaxRows}}

InitCsv ==
    /\ pc = "start"
    /\ pasted \in Tables
    /\ text = JoinLines(<<pasted.header>> \o pasted.rows)
    /\ result = NoResult
    /\ balances = <<>>
    /\ member_map = <<>>
    /\ NoLocals
    /\ store_category_map = STORE_CATEGORY_MAP
    /\ NoLedger

CallParseCsv ==
    /\ pc = "start"
    /\ result' = parse_csv(text)
    /\ pc' = "csv"
    /\ UNCHANGED <<balances, member_map, creditors, debtors, i, j, settlements,
                   text, pasted, standing>>

NextCsv == CallParseCsv

SpecCsv == InitCsv /\ [][NextCsv]_vars

----------------------------------------------------------------------------
(* Claims about simplify_debts *)

CreditorIds == {m \in DOMAIN balances : balances[m] > EPS}
DebtorIds == {m \in DOMAIN balances : balances[m] < 0 - EPS}
Debt == [m \in DOMAIN balances |-> 0 - balances[m]]

SumsToZero == SumOver(balances, DOMAIN balances) = 0

\* Every participant has a name of its own, so a transfer names its parties.
NamesIdentify ==
    /\ DOMAIN balances \subseteq DOMAIN member_map
    /\ \A m, n \in DOMAIN balances : member_map[m] = member_map[n] => m = n

MemberNamed(name) == CHOOSE m \in DOMAIN balances : member_map[m] = name

\* The balances after every transfer of T is paid: the sender's balance goes
\* up by the amount, the receiver's goes down by it.
RECURSIVE ApplyTransfers(_, _)
ApplyTransfers(b, T) ==
    IF T = <<>> THEN b
    ELSE LET t == Head(T)
             paid == [b EXCEPT ![MemberNamed(t.from)] = @ + t.amount]
             got == [paid EXCEPT ![MemberNamed(t.to)] = @ - t.amount]
         IN  ApplyTransfers(got, Tail(T))

Settled == pc = "done" /\ SumsToZero /\ NamesIdentify

\* C2: for balances that sum to zero, paying all the returned transfers leaves
\* every participant's balance within the epsilon 0.01 of zero.
C2_TransfersSettleBalances ==
    Settled =>
        \A m \in DOMAIN balances :
            Abs(ApplyTransfers(balances, settlements)[m]) <= EPS

\* C3: every transfer of the list has a strictly positive amount after
\* rounding to 2 decimal places, whatever the balances are.
C3_AmountsPositive ==
    \A k \in 1..Len(settlements) : settlements[k].amount > 0

C3_Witness ==
    /\ pc = "done"
    /\ Len(settlements) >= 2
    /\ \E k \in 1..Len(settlements) : settlements[k].amount = UnitsPerCent

ExampleCase == pc = "done" /\ balances = ExampleBalances /\ member_map = FullMap

ExampleTransfers ==
    <<[from |-> "Bob", to |-> "Ann", amount |-> 6000 * UnitsPerCent],
      [from |-> "Cid", to |-> "Ann", amount |-> 4000 * UnitsPerCent]>>

OneCreditorCase ==
    /\ pc = "done"
    /\ NamesIdentify
    /\ Cardinality(CreditorIds) = 1
    /\ DebtorIds # {}
    /\ SumOver(Debt, DebtorIds) = SumOver(balances, CreditorIds)

\* One transfer per debtor d, to the creditor, of pays[d], by descending debt.
OneTransferPerDebtor(pays) ==
    /\ Len(settlements) = Cardinality(DebtorIds)
    /\ \A k \in 1..Len(settlements) :
        /\ \E c \in CreditorIds : settlements[k].to = member_map[c]
        /\ \E d \in DebtorIds :
            /\ settlements[k].from = member_map[d]
            /\ settlements[k].amount = pays[d]
    /\ \A k, l \in 1..Len(settlements) :
        k < l =>
            /\ settlements[k].from # settlements[l].from
            /\ Debt[MemberNamed(settlements[k].from)]
                   >= Debt[MemberNamed(settlements[l].from)]

\* C4 as stated: {A: +100, B: -60, C: -40} gives B->A 60 then C->A 40, and with
\* one creditor whose balance is the sum of the debts there is one transfer per
\* debtor, for that debtor's full debt, in descending order of debt.
C4_OnePerDebtorFullDebt ==
    /\ ExampleCase => settlements = ExampleTransfers
    /\ OneCreditorCase =>
        OneTransferPerDebtor([d \in DebtorIds |-> Debt[d]])

\* C4 amended: the same, each transfer being for the debtor's debt rounded to
\* 2 decimal places.
C4_OnePerDebtorRoundedDebt ==
    /\ ExampleCase => settlements = ExampleTransfers
    /\ OneCreditorCase =>
        OneTransferPerDebtor([d \in DebtorIds |-> Round2(Debt[d])])

C4_Witness ==
    /\ OneCreditorCase
    /\ Cardinality(DebtorIds) >= 2
    /\ \E d \in DebtorIds : Round2(Debt[d]) # Debt[d]
    /\ \E d, e \in DebtorIds : Debt[d] > Debt[e]

\* C5: for balances that sum to zero, simplifying the balances left after
\* paying the returned transfers returns the empty list.
C5_SecondRunEmpty ==
    Settled =>
        simplify_debts(ApplyTransfers(balances, settlements), member_map) = <<>>

----------------------------------------------------------------------------
(* Claims about the extractors *)

\* The records a finished call has emitted.
EmittedRecords ==
    IF pc \in {"uzcard", "humo", "receipt"} /\ ~result.raised
    THEN {result.value}
    ELSE IF pc \in {"bulk", "csv"} /\ ~result.raised
    THEN {result.value[k] : k \in 1..Len(result.value)}
    ELSE {}

\* C1: every record an extractor emits has an amount that is absent or
\* strictly positive, and a type field that is income or expense.
C1_AmountPositiveTypeKnown ==
    \A r \in EmittedRecords :
        /\ r.amount = None \/ r.amount[1].n > 0
        /\ "type" \in DOMAIN r
        /\ r.type \in {"income", "expense"}

\* C6: parse_sms_uzcard, parse_sms_humo and parse_sms_bulk raise for no input.
C6_SmsNeverRaises ==
    pc \in {"uzcard", "humo", "bulk"} => ~result.raised

\* The extractor a pasted message goes to, by its card prefix.
ExtractorResult(m) ==
    IF m.card = Card_Humo THEN parse_sms_humo(MessageText(m))
    ELSE parse_sms_uzcard(MessageText(m))

\* The results of the messages that have an amount, in order.
RECURSIVE WithAmount(_)
WithAmount(msgs) ==
    IF msgs = <<>> THEN <<>>
    ELSE LET r == ExtractorResult(msgs[1])
         IN  IF ~r.raised /\ r.value.amount # None
             THEN <<r.value>> \o WithAmount(Tail(msgs))
             ELSE WithAmount(Tail(msgs))

BlankLineBlock ==
    /\ pc = "bulk"
    /\ Len(pasted.msgs) >= 2
    /\ pasted.sep \in {Sep_Blank, Sep_BlankSpaces}

\* C8: for chunks separated by blank lines parse_sms_bulk returns exactly the
\* chunks' extractor results that have an amount, in the order of the chunks.
C8_BulkKeepsAmountResults ==
    BlankLineBlock =>
        /\ ~result.raised
        /\ result.value = WithAmount(pasted.msgs)

ExampleSms == MessageText(Message(Card_Karta, Amt_Debit, Tail_Uzcard))

\* The first number of a message that has two decimals and the currency after
\* it, read off the pieces of the message.
PhraseNumber(amt) ==
    IF amt \in {Amt_Debit, Amt_Credit} THEN Some(DecOfInt(150000))
    ELSE IF amt = Amt_Zero THEN Some(DecOfInt(0))
    ELSE IF amt = Amt_Popolnenie THEN Some([n |-> 995, e |-> 1])
    ELSE None

TailNumber(tail) ==
    IF tail = Tail_Uzcard THEN Some(DecOfInt(3500000)) ELSE None

FirstTwoDecimalNumber(m) ==
    IF PhraseNumber(m.amt) # None THEN PhraseNumber(m.amt) ELSE TailNumber(m.tail)

\* C9: the example message gives amount 150000.00, expense, Korzinka, Food,
\* *1234 and 2026-02-12; the amount of a message is its first number with two
\* decimals before the currency, not the balance that follows.
C9_UzcardFirstAmount ==
    /\ (pc = "uzcard" /\ text = ExampleSms) =>
        /\ ~result.raised
        /\ result.value.amount = Some(DecOfInt(150000))
        /\ result.value.type = "expense"
        /\ result.value.merchant = Some(<<"K", "o", "r", "z", "i", "n", "k", "a">>)
        /\ result.value.category = "Food"
        /\ result.value.card = Some(<<"*", "1", "2", "3", "4">>)
        /\ result.value.date = Some([year |-> 2026, month |-> 2, day |-> 12])
    /\ (pc = "uzcard" /\ Len(pasted.msgs) = 1 /\ ~result.raised) =>
        result.value.amount = FirstTwoDecimalNumber(pasted.msgs[1])

C9_Witness ==
    /\ pc = "uzcard"
    /\ text = ExampleSms
    /\ ~result.raised
    /\ result.value.amount = Some(DecOfInt(150000))

\* What the pieces of a receipt say, line by line.
HasLine(line) == \E k \in 1..Len(pasted) : pasted[k] = line

LineDateValue(line) ==
    IF line \in {Date_Dots, Date_Iso, Date_Short}
    THEN Some([year |-> 2026, month |-> 2, day |-> 12])
    ELSE None

\* the date of the first line that carries a calendar date
RECURSIVE FirstDateValue(_)
FirstDateValue(lines) ==
    IF lines = <<>> THEN None
    ELSE IF LineDateValue(lines[1]) # None THEN LineDateValue(lines[1])
    ELSE FirstDateValue(Tail(lines))

\* the lines that are neither numbers nor boilerplate
MerchantLike ==
    {Head_Shop, Item_Non, Item_Dollar, Item_Usd, Item_UsdLower, Upper_Total,
     Tot_Itogo, Tot_Dots, Tot_Comma, Tot_Tab, Tot_Words}

RECURSIVE FirstMerchantLike(_)
FirstMerchantLike(lines) ==
    IF lines = <<>> THEN None
    ELSE IF lines[1] \in MerchantLike THEN Some(lines[1])
    ELSE FirstMerchantLike(Tail(lines))

UnparsedTotals == {Tot_Tab, Tot_Words}

\* the number of a total line that can be read
LineTotalValue(line) ==
    IF line = Tot_Itogo THEN Some(DecOfInt(150000))
    ELSE IF line = Tot_Dots THEN Some(DecOfInt(1500000))
    ELSE IF line = Tot_Comma THEN Some([n |-> 1505, e |-> 1])
    ELSE IF line = Upper_Total THEN Some(DecOfInt(5))
    ELSE None

\* the total of the lowest total line that can be read
RECURSIVE LowestTotalValue(_)
LowestTotalValue(lines) ==
    IF lines = <<>> THEN None
    ELSE IF LineTotalValue(lines[Len(lines)]) # None
         THEN LineTotalValue(lines[Len(lines)])
    ELSE LowestTotalValue(SubSeq(lines, 1, Len(lines) - 1))

\* C7: parse_receipt_text returns a record for every text; a total line whose
\* number cannot be read, a date that is no calendar date and the lack of a
\* merchant line each leave the other fields as the other lines give them.
C7_ReceiptDegradesPerField ==
    pc = "receipt" =>
        /\ ~result.raised
        /\ result.value.date = FirstDateValue(pasted)
        /\ result.value.merchant = FirstMerchantLike(pasted)
        /\ FirstMerchantLike(pasted) = None => result.value.category = "Other"
        /\ LowestTotalValue(pasted) # None =>
               result.value.amount = LowestTotalValue(pasted)
        /\ (HasLine(Date_Invalid) /\ Len(pasted) = 1) => result.value.date = None

C7_Witness ==
    /\ pc = "receipt"
    /\ HasLine(Tot_Tab)
    /\ HasLine(Date_Invalid)
    /\ HasLine(Head_Shop)
    /\ ~result.raised
    /\ result.value.date = None
    /\ result.value.merchant = Some(Head_Shop)

\* The signed amount of a data row, None if it has none that can be read.
RowSignedAmount(row) ==
    IF row = Row_Expense THEN Some(DecOfInt(0 - 45000))
    ELSE IF row = Row_Income THEN Some([n |-> 450005, e |-> 1])
    ELSE IF row = Row_Zero THEN Some(DecOfInt(0))
    ELSE IF row = Row_Plus THEN Some([n |-> 125, e |-> 1])
    ELSE IF row = Row_BadMonth THEN Some(DecOfInt(700))
    ELSE IF row = Row_Usd THEN Some(DecOfInt(1000))
    ELSE None

AmountColumnMapped == pasted.header \in {Hdr_Amount, Hdr_Spaced, Hdr_Cyrillic}

\* type and magnitude of the rows with an amount other than zero, in order
RECURSIVE SignedRows(_)
SignedRows(rows) ==
    IF rows = <<>> THEN <<>>
    ELSE LET a == RowSignedAmount(rows[1])
         IN  IF a = None \/ a[1].n = 0 THEN SignedRows(Tail(rows))
             ELSE <<[type |-> IF a[1].n < 0 THEN "expense" ELSE "income",
                     amount |-> Some([n |-> Abs(a[1].n), e |-> a[1].e])]>>
                      \o SignedRows(Tail(rows))

TypeAndAmount(entries) ==
    [k \in 1..Len(entries) |->
        [type |-> entries[k].type, amount |-> entries[k].amount]]

\* C10: with an amount column, each row whose amount parses and is not zero
\* gives one transaction, expense for a negative and income for a positive
\* value, with the magnitude as amount; rows whose amount does not parse are
\* skipped; "Date;Amount;Description" with -45,000 gives expense 45000.
C10_CsvSignDecidesType ==
    /\ (pc = "csv" /\ AmountColumnMapped) =>
        /\ ~result.raised
        /\ TypeAndAmount(result.value) = SignedRows(pasted.rows)
    /\ (pc = "csv" /\ pasted = Table(Hdr_Amount, <<Row_Expense>>)) =>
        TypeAndAmount(result.value)
            = <<[type |-> "expense", amount |-> Some(DecOfInt(45000))]>>

C10_Witness ==
    /\ pc = "csv"
    /\ pasted = Table(Hdr_Amount, <<Row_Text, Row_Expense>>)
    /\ Len(result.value) = 1
    /\ result.value[1].type = "expense"

----------------------------------------------------------------------------
(* Claims about the receipt amount *)

\* The number written at the end of a total line.
TotalNumber(line) ==
    SubSeq(line, RunBegin(line, Len(line), Digits \cup {".", ",", " "}) + 1,
           Len(line))

DotCount(s) == Len(SelectSeq(s, LAMBDA c : c = "."))

\* A number read by the rule of the thousands dot: spaces dropped and commas
\* taken as dots, then digits '.' three digits is a whole number, more than
\* one dot is a whole number, and a single dot is a decimal point.
ReadByDotRule(number) ==
    LET cleaned == ReplaceChar(Remove(number, {" "}), ",", ".")
        dot == FirstPosition({p \in 1..Len(cleaned) : cleaned[p] = "."})
        whole == DecOfInt(DigitsToInt(Remove(cleaned, {"."})))
    IN  IF DotCount(cleaned) = 1 /\ dot > 1 /\ Len(cleaned) - dot = 3
        THEN whole
        ELSE IF DotCount(cleaned) > 1 THEN whole
        ELSE IF DotCount(cleaned) = 1
        THEN Dec(1, SubSeq(cleaned, 1, dot - 1),
                 SubSeq(cleaned, dot + 1, Len(cleaned)))
        ELSE whole

ReadableTotals == {Upper_Total, Tot_Itogo, Tot_Dots, Tot_Comma}

LastLine == pasted[Len(pasted)]

\* C11: the number of a total line is read by the rule of the thousands dot:
\* "150.000" is 150000, "1.500.000" is 1500000 and "150,50" is 150.50, and
\* the amount of a receipt whose last line is a total line is that number.
C11_ThousandsDotRule ==
    /\ ReadByDotRule(<<"1", "5", "0", ".", "0", "0", "0">>) = DecOfInt(150000)
    /\ ReadByDotRule(<<"1", ".", "5", "0", "0", ".", "0", "0", "0">>)
           = DecOfInt(1500000)
    /\ ReadByDotRule(<<"1", "5", "0", ",", "5", "0">>) = [n |-> 1505, e |-> 1]
    /\ (pc = "receipt" /\ pasted # <<>> /\ LastLine \in ReadableTotals) =>
           /\ ~result.raised
           /\ result.value.amount = Some(ReadByDotRule(TotalNumber(LastLine)))

C11_Witness ==
    /\ pc = "receipt"
    /\ HasLine(Upper_Total)
    /\ LastLine = Tot_Dots
    /\ result.value.amount = Some(DecOfInt(1500000))

\* A line with one of the total keywords in it.
HasTotalKeyword(line) ==
    \E k \in 1..Len(TotalKeywords) : ContainsCI(line, TotalKeywords[k])

\* The numbers shaped digits(.|,)two-digits that a line shows.
LineTwoDecimals(line) ==
    IF line = Item_Non THEN {[n |-> 125, e |-> 1]}
    ELSE IF line = Item_Dollar THEN {DecOfInt(7)}
    ELSE IF line = Date_Dots THEN {[n |-> 1202, e |-> 2]}
    ELSE IF line = Date_Invalid THEN {[n |-> 3102, e |-> 2]}
    ELSE {}

TwoDecimals == UNION {LineTwoDecimals(pasted[k]) : k \in 1..Len(pasted)}

LargestTwoDecimal ==
    IF TwoDecimals = {} THEN None
    ELSE Some(CHOOSE x \in TwoDecimals : \A y \in TwoDecimals : ~DecLess(x, y))

\* C12: the amount is the number of the lowest line in which a total keyword
\* is followed by a number; only a text without any total keyword gets the
\* largest number shaped digits(.|,)two-digits instead; a text with the line
\* "ИТОГО: 150.000" and no USD marker has amount 150000 and currency UZS.
C12_LowestTotalElseFallback ==
    pc = "receipt" =>
        /\ ~result.raised
        /\ LowestTotalValue(pasted) # None =>
               result.value.amount = LowestTotalValue(pasted)
        /\ (\A k \in 1..Len(pasted) : ~HasTotalKeyword(pasted[k])) =>
               result.value.amount = LargestTwoDecimal
        /\ ((\E k \in 1..Len(pasted) : HasTotalKeyword(pasted[k]))
                /\ LowestTotalValue(pasted) = None) =>
               result.value.amount = None
        /\ (HasLine(Tot_Itogo)
                /\ \A k \in 1..Len(pasted) : pasted[k] \notin ReceiptItems \ {Item_Non}) =>
               /\ result.value.amount = Some(DecOfInt(150000))
               /\ result.value.currency = "UZS"

----------------------------------------------------------------------------
(* The category lookup called on its own: a merchant name of up to two     *)
(* words, or no name at all.                                               *)

MaxWords == 2

Word_Mediapark == <<"M", "e", "d", "i", "a", "p", "a", "r", "k">>
Word_Park == <<"P", "A", "R", "K">>
Word_Aquapark == <<"A", "q", "u", "a", "p", "a", "r", "k">>
Word_Korzinka == <<"K", "o", "r", "z", "i", "n", "k", "a">>
Word_Apteka == <<"a", "p", "t", "e", "k", "a">>
Word_Yandex == <<"Y", "a", "n", "d", "e", "x">>
Word_Go == <<"G", "o">>
Word_Suvokava == <<"S", "u", "v", "o", "k", "a", "v", "a">>
Word_Kitob == <<"K", "I", "T", "O", "B">>
Word_Ijara == <<"i", "j", "a", "r", "a">>
Word_Shop == <<"S", "h", "o", "p">>
Word_Blank == <<" ">>

NameWords ==
    {Word_Mediapark, Word_Park, Word_Aquapark, Word_Korzinka, Word_Apteka,
     Word_Yandex, Word_Go, Word_Suvokava, Word_Kitob, Word_Ijara, Word_Shop,
     Word_Blank}

WordLists == UNION {[1..n -> NameWords] : n \in 0..MaxWords}

\* ' '.join(words)
RECURSIVE JoinWords(_)
JoinWords(words) ==
    IF words = <<>> THEN <<>>
    ELSE IF Len(words) = 1 THEN words[1]
    ELSE words[1] \o <<" ">> \o JoinWords(Tail(words))

\* The argument is None (pasted is None and text is empty) or the name made
\* of the words pasted[1].
InitCategory ==
    /\ pc = "start"
    /\ pasted \in {Some(words) : words \in WordLists} \cup {None}
    /\ text = IF pasted = None THEN <<>> ELSE JoinWords(pasted[1])
    /\ result = NoResult
    /\ balances = <<>>
    /\ member_map = <<>>
    /\ NoLocals
    /\ store_category_map = STORE_CATEGORY_MAP
    /\ NoLedger

MerchantName == IF pasted = None THEN None ELSE Some(text)

CallGuessCategory ==
    /\ pc = "start"
    /\ result' = Returned(guess_category(MerchantName))
    /\ pc' = "category"
    /\ UNCHANGED <<balances, member_map, creditors, debtors, i, j, settlements,
                   text, pasted, standing>>

NextCategory == CallGuessCategory

SpecCategory == InitCategory /\ [][NextCategory]_vars

----------------------------------------------------------------------------
(* Claims about guess_category *)

Categories ==
    {"Food", "Transport", "Utilities", "Shopping", "Health", "Entertainment",
     "Education", "Housing", "Other"}

\* the table entries whose keyword is part of the lowercased name
KeywordsIn(name) ==
    {k \in 1..Len(STORE_CATEGORY_MAP) :
        Contains(LowerStr(name), STORE_CATEGORY_MAP[k][1])}

\* the order in which the table lists its categories
CategoryRank ==
    ("Food" :> 1) @@ ("Transport" :> 2) @@ ("Utilities" :> 3)
    @@ ("Shopping" :> 4) @@ ("Health" :> 5) @@ ("Entertainment" :> 6)
    @@ ("Education" :> 7) @@ ("Housing" :> 8) @@ ("Other" :> 9)

\* What a word of a name stands for: 'mediapark' comes before 'park' in the
\* table, 'yandex go' needs both words.
WordCategory(words, k) ==
    IF words[k] = Word_Mediapark THEN "Shopping"
    ELSE IF words[k] \in {Word_Park, Word_Aquapark} THEN "Entertainment"
    ELSE IF words[k] = Word_Korzinka THEN "Food"
    ELSE IF words[k] = Word_Apteka THEN "Health"
    ELSE IF words[k] = Word_Suvokava THEN "Utilities"
    ELSE IF words[k] = Word_Kitob THEN "Education"
    ELSE IF words[k] = Word_Ijara THEN "Housing"
    ELSE IF words[k] = Word_Yandex /\ k < Len(words) /\ words[k + 1] = Word_Go
         THEN "Transport"
    ELSE "Other"

\* the category that comes first in the table among those of the words
NameCategory(words) ==
    LET found == {WordCategory(words, k) : k \in 1..Len(words)} \cup {"Other"}
    IN  CHOOSE c \in found : \A d \in found : CategoryRank[c] <= CategoryRank[d]

\* C13: guess_category returns the category of the first table entry, in the
\* order of the table, whose keyword is part of the lowercased name, and
\* 'Other' for no match, for an empty name and for no name; the result is
\* always one of the fixed categories.
C13_FirstKeywordInTableOrder ==
    pc = "category" =>
        /\ ~result.raised
        /\ result.value \in Categories
        /\ pasted = None => result.value = "Other"
        /\ pasted # None =>
            /\ KeywordsIn(text) = {} => result.value = "Other"
            /\ KeywordsIn(text) # {} =>
                   result.value
                       = STORE_CATEGORY_MAP[FirstPosition(KeywordsIn(text))][2]
            /\ result.value = NameCategory(pasted[1])

C13_Witness ==
    /\ pc = "category"
    /\ pasted = Some(<<Word_Park, Word_Mediapark>>)
    /\ result.value = "Shopping"

----------------------------------------------------------------------------
(* The seven functions called again and again, in any order, on one text   *)
(* and one set of balances.                                                *)

Functions ==
    {"guess_category", "parse_receipt_text", "parse_sms_uzcard",
     "parse_sms_humo", "parse_sms_bulk", "parse_csv", "simplify_debts"}

CallTexts ==
    {MessageText(Message(Card_Karta, Amt_Debit, Tail_Uzcard)),
     MessageText(Message(Card_Humo, Amt_Spisanie, Tail_Humo)),
     BlockText(<<Message(Card_Karta, Amt_Debit, Tail_Uzcard),
                 Message(Card_Humo, Amt_Spisanie, Tail_Humo)>>, Sep_Blank),
     JoinLines(<<Head_Shop, Item_Non, Date_Dots, Tot_Itogo>>),
     JoinLines(<<Hdr_Amount, Row_Expense, Row_Income>>),
     Word_Mediapark}

\* {1: 0.03, 2: 0.02, 3: -0.02, 4: -0.03}
SmallBalances ==
    (1 :> 3 * UnitsPerCent) @@ (2 :> 2 * UnitsPerCent)
        @@ (3 :> (0 - 2) * UnitsPerCent) @@ (4 :> (0 - 3) * UnitsPerCent)

InitCalls ==
    /\ pc = "start"
    /\ text \in CallTexts
    /\ pasted = <<>>
    /\ result = NoResult
    /\ balances \in {ExampleBalances, SmallBalances}
    /\ member_map = FullMap
    /\ NoLocals
    /\ store_category_map = STORE_CATEGORY_MAP
    /\ NoLedger

\* The call of function f has returned r: r is the result, and is kept if it
\* is the first call of f.
Return(f, r) ==
    /\ pc' = f
    /\ result' = r
    /\ returned' = IF f \in DOMAIN returned THEN returned
                   ELSE [g \in DOMAIN returned \cup {f} |->
                            IF g = f THEN r ELSE returned[g]]

RunGuessCategory ==
    /\ Return("guess_category", Returned(guess_category(Some(text))))
    /\ UNCHANGED <<balances, member_map, creditors, debtors, i, j, settlements,
                   text, pasted, store_category_map, split_expenses,
                   transactions>>

RunParseReceiptText ==
    /\ Return("parse_receipt_text", parse_receipt_text(text))
    /\ UNCHANGED <<balances, member_map, creditors, debtors, i, j, settlements,
                   text, pasted, store_category_map, split_expenses,
                   transactions>>

RunParseSmsUzcard ==
    /\ Return("parse_sms_uzcard", parse_sms_uzcard(text))
    /\ UNCHANGED <<balances, member_map, creditors, debtors, i, j, settlements,
                   text, pasted, store_category_map, split_expenses,
                   transactions>>

RunParseSmsHumo ==
    /\ Return("parse_sms_humo", parse_sms_humo(text))
    /\ UNCHANGED <<balances, member_map, creditors, debtors, i, j, settlements,
                   text, pasted, store_category_map, split_expenses,
                   transactions>>

RunParseSmsBulk ==
    /\ Return("parse_sms_bulk", parse_sms_bulk(text))
    /\ UNCHANGED <<balances, member_map, creditors, debtors, i, j, settlements,
                   text, pasted, store_category_map, split_expenses,
                   transactions>>

RunParseCsv ==
    /\ Return("parse_csv", parse_csv(text))
    /\ UNCHANGED <<balances, member_map, creditors, debtors, i, j, settlements,
                   text, pasted, store_category_map, split_expenses,
                   transactions>>

\* variant: the amounts transferred are taken off the caller's balances
RunSimplifyDebtsInPlace ==
    /\ Return("simplify_debts", Returned(simplify_debts(balances, member_map)))
    /\ balances' = [m \in DOMAIN balances |->
                       IF Abs(balances[m]) > EPS THEN 0 ELSE balances[m]]
    /\ UNCHANGED <<member_map, creditors, debtors, i, j, settlements,
                   text, pasted, store_category_map, split_expenses,
                   transactions>>

\* simplify_debts run to its end in one step; its lists are its own
RunSimplifyDebts ==
    /\ Return("simplify_debts", Returned(simplify_debts(balances, member_map)))
    /\ UNCHANGED <<balances, member_map, creditors, debtors, i, j, settlements,
                   text, pasted, store_category_map, split_expenses,
                   transactions>>

NextCalls ==
    \/ RunGuessCategory
    \/ RunParseReceiptText
    \/ RunParseSmsUzcard
    \/ RunParseSmsHumo
    \/ RunParseSmsBulk
    \/ RunParseCsv
    \/ RunSimplifyDebts

SpecCalls == InitCalls /\ [][NextCalls]_vars

----------------------------------------------------------------------------
(* Claims about the calls as a whole *)

----------------------------------------------------------------------------
(* Claims about parse_csv *)

Day(y, m, d) == Some([year |-> y, month |-> m, day |-> d])

\* The calendar date in the first cell of a data row, None if it is none.
RowDate(row) ==
    IF row \in {Row_Expense, Row_Short} THEN Day(2026, 1, 1)
    ELSE IF row = Row_Income THEN Day(2026, 12, 31)
    ELSE IF row = Row_Zero THEN Day(2026, 2, 12)
    ELSE IF row = Row_Plus THEN Day(2026, 2, 1)
    ELSE IF row = Row_Usd THEN Day(2026, 1, 13)
    ELSE None

\* What a data row yields under a header: None for a row that has no usable
\* amount there, else the type and the amount.  Under "Sana;Kirim;Chiqim" the
\* second cell is the credit and the third the debit; under the header with
\* commas a row with semicolons has no amount cell that is a number.
RowYield(header, row) ==
    IF header \in {Hdr_Amount, Hdr_Spaced, Hdr_Cyrillic}
    THEN IF RowSignedAmount(row) = None \/ RowSignedAmount(row)[1].n = 0
         THEN None
         ELSE Some([type |-> IF RowSignedAmount(row)[1].n < 0
                             THEN "expense" ELSE "income",
                    amount |-> Some([n |-> Abs(RowSignedAmount(row)[1].n),
                                     e |-> RowSignedAmount(row)[1].e])])
    ELSE IF header = Hdr_CreditDebit
    THEN IF row = Row_Zero
         THEN Some([type |-> "expense", amount |-> Some(DecOfInt(500))])
         ELSE IF row = Row_Plus
         THEN Some([type |-> "income", amount |-> Some([n |-> 125, e |-> 1])])
         ELSE IF row = Row_BadMonth
         THEN Some([type |-> "income", amount |-> Some(DecOfInt(700))])
         ELSE None
    ELSE None

\* type, amount and date of the rows that yield a transaction, in row order
RECURSIVE GoodRows(_, _)
GoodRows(header, rows) ==
    IF rows = <<>> THEN <<>>
    ELSE IF RowYield(header, rows[1]) = None THEN GoodRows(header, Tail(rows))
    ELSE <<[type |-> RowYield(header, rows[1])[1].type,
            amount |-> RowYield(header, rows[1])[1].amount,
            date |-> RowDate(rows[1])]>> \o GoodRows(header, Tail(rows))

TypeAmountDate(entries) ==
    [k \in 1..Len(entries) |->
        [type |-> entries[k].type, amount |-> entries[k].amount,
         date |-> entries[k].date]]

\* C15: parse_csv raises for no table; a row that is too short, empty, or
\* has an amount that cannot be read is left out, a date that cannot be read
\* is left absent, and the other rows give their transactions in row order;
\* a header without data rows gives the empty list.
C15_CsvSkipsBadRows ==
    pc = "csv" =>
        /\ ~result.raised
        /\ pasted.rows = <<>> => result.value = <<>>
        /\ TypeAmountDate(result.value) = GoodRows(pasted.header, pasted.rows)

C15_Witness ==
    /\ pc = "csv"
    /\ pasted = Table(Hdr_Amount, <<Row_Short, Row_BadMonth>>)
    /\ Len(result.value) = 1
    /\ result.value[1].date = None
    /\ result.value[1].amount = Some(DecOfInt(700))

----------------------------------------------------------------------------
(* Claims about the loop of simplify_debts *)

\* the remaining amounts of the parties that are not yet settled
Unsettled(parties) ==
    {parties[k].rem : k \in {l \in 1..Len(parties) : ~(parties[l].rem < EPS)}}

\* C16: at every iteration the debtor and the creditor that are paired have
\* the largest remaining amount among the debtors, and the creditors, that
\* are not yet settled, and what is deducted from both is the smaller of
\* their two remaining amounts.
C16_LargestRemainingPaired ==
    [][(pc = "loop" /\ LoopCondition(Locals)) =>
          /\ \A r \in Unsettled(debtors) : r <= debtors[i].rem
          /\ \A r \in Unsettled(creditors) : r <= creditors[j].rem
          /\ debtors'[i].rem
                 = debtors[i].rem - Min(debtors[i].rem, creditors[j].rem)
          /\ creditors'[j].rem
                 = creditors[j].rem - Min(debtors[i].rem, creditors[j].rem)]_vars

----------------------------------------------------------------------------
(* Claims about the type of an SMS *)

\* The amount phrases in which a '+' or a deposit word stands before the
\* number: "+150,000.00 UZS" and "Popolnenie 99.50 UZS".
DepositPhrases == {Amt_Credit, Amt_Popolnenie}

\* C17: parse_sms_uzcard gives a message with an amount the type income when
\* a '+' (also one written directly in front of the number) or a deposit word
\* stands before the amount, and expense otherwise.
C17_PlusOrDepositIsIncome ==
    (pc = "uzcard" /\ Len(pasted.msgs) = 1 /\ ~result.raised
        /\ result.value.amount # None) =>
        result.value.type
            = IF pasted.msgs[1].amt \in DepositPhrases THEN "income"
              ELSE "expense"

----------------------------------------------------------------------------
(* Claims about the credit and debit columns *)

\* Under "Sana;Kirim;Chiqim" the second cell of a row is its credit and the
\* third its debit.  The cell of the two that is a positive number, whatever
\* the other cell holds: None if neither is.
PositiveCell(row) ==
    IF row = Row_Income
    THEN Some([type |-> "income", amount |-> Some([n |-> 450005, e |-> 1])])
    ELSE IF row = Row_Usd
    THEN Some([type |-> "income", amount |-> Some(DecOfInt(1000))])
    ELSE IF row = Row_Plus
    THEN Some([type |-> "income", amount |-> Some([n |-> 125, e |-> 1])])
    ELSE IF row = Row_BadMonth
    THEN Some([type |-> "income", amount |-> Some(DecOfInt(700))])
    ELSE IF row = Row_Zero
    THEN Some([type |-> "expense", amount |-> Some(DecOfInt(500))])
    ELSE IF row = Row_Text
    THEN Some([type |-> "expense", amount |-> Some(DecOfInt(12))])
    ELSE None

RECURSIVE PositiveCells(_)
PositiveCells(rows) ==
    IF rows = <<>> THEN <<>>
    ELSE PositiveCell(rows[1]) \o PositiveCells(Tail(rows))

\* C18: without an amount column and with credit and debit columns, a row
\* gives an income transaction for a positive credit cell and an expense
\* transaction for a positive debit cell, also when the other cell is empty
\* or no number; a row with neither cell positive is skipped.
C18_PositiveCreditOrDebit ==
    (pc = "csv" /\ pasted.header = Hdr_CreditDebit) =>
        /\ ~result.raised
        /\ TypeAndAmount(result.value) = PositiveCells(pasted.rows)

----------------------------------------------------------------------------
(* The shared expenses of one group, app.py 415-429 and 469-500: requests   *)
(* that add an expense, that settle or unsettle one, and that show the      *)
(* group with its net balances.                                            *)

MaxExpenses == 2

\* the amounts typed into the form: 0, 0.01 and 0.07; none of them splits
\* into an exact half cent, where the float of the quotient would decide
FormAmounts == {0, UnitsPerCent, 7 * UnitsPerCent}

\* the share fields of the form for a custom split: all left empty, the
\* whole amount on the first member, 0.01 for everybody
FormShares(amount) ==
    {[m \in Members |-> 0],
     [m \in Members |-> IF m = 1 THEN amount ELSE 0],
     [m \in Members |-> UnitsPerCent]}

\* line 483: round(amount / len(members), 2)
EqualShare(amount, n) ==
    LET q == amount \div (n * UnitsPerCent)
        r == amount % (n * UnitsPerCent)
    IN  IF 2 * r < n * UnitsPerCent THEN q * UnitsPerCent
        ELSE IF 2 * r > n * UnitsPerCent THEN (q + 1) * UnitsPerCent
        ELSE IF q % 2 = 0 THEN q * UnitsPerCent
        ELSE (q + 1) * UnitsPerCent

\* lines 476-489: the SplitExpense row with its SplitShare rows
NewExpense(amount, paid_by, split_type, form) ==
    [amount |-> amount, paid_by |-> paid_by, settled |-> FALSE,
     shares |-> IF split_type = "equal"
                THEN [m \in Members |-> EqualShare(amount, NumMembers)]
                ELSE form]

InitLedger ==
    /\ pc = "start"
    /\ split_expenses = <<>>
    /\ transactions = <<>>
    /\ returned = <<>>
    /\ balances = <<>>
    /\ member_map = <<>>
    /\ NoLocals
    /\ NoText
    /\ store_category_map = STORE_CATEGORY_MAP

\* the page of an earlier request is gone
NoPage == balances' = <<>> /\ member_map' = <<>> /\ result' = NoResult

add_split_expense ==
    /\ Len(split_expenses) < MaxExpenses
    /\ \E amount \in FormAmounts, paid_by \in Members,
          split_type \in {"equal", "custom"} :
          \E form \in FormShares(amount) :
             split_expenses' =
                 IF amount <= 0 THEN split_expenses
                 ELSE Append(split_expenses,
                             NewExpense(amount, paid_by, split_type, form))
    /\ pc' = "add_split_expense"
    /\ NoPage
    /\ UNCHANGED <<creditors, debtors, i, j, settlements, text, pasted,
                   store_category_map, returned, transactions>>

\* variant: exp.settled = True
ToggleSettledAlways(expenses, expense_id) ==
    [expenses EXCEPT ![expense_id].settled = TRUE]

\* line 497: exp.settled = not exp.settled
ToggleSettled(expenses, expense_id) ==
    [expenses EXCEPT ![expense_id].settled = ~@]

settle_expense ==
    /\ \E expense_id \in 1..Len(split_expenses) :
          split_expenses' = ToggleSettled(split_expenses, expense_id)
    /\ pc' = "settle_expense"
    /\ NoPage
    /\ UNCHANGED <<creditors, debtors, i, j, settlements, text, pasted,
                   store_category_map, returned, transactions>>

\* lines 419-423: what the expenses from the k-th on add to the balance of m
RECURSIVE NetBalance(_, _, _)
NetBalance(expenses, m, k) ==
    IF k > Len(expenses) THEN 0
    ELSE IF expenses[k].settled THEN NetBalance(expenses, m, k + 1)
    ELSE (IF expenses[k].paid_by = m THEN expenses[k].amount ELSE 0)
             - expenses[k].shares[m] + NetBalance(expenses, m, k + 1)

\* lines 418-423: a defaultdict, with a key for whoever paid or has a share
GroupBalances(expenses) ==
    IF \A k \in 1..Len(expenses) : expenses[k].settled THEN <<>>
    ELSE [m \in Members |-> NetBalance(expenses, m, 1)]

split_group ==
    /\ balances' = GroupBalances(split_expenses)
    /\ member_map' = FullMap
    /\ result' = Returned(simplify_debts(GroupBalances(split_expenses), FullMap))
    /\ pc' = "split_group"
    /\ UNCHANGED <<creditors, debtors, i, j, settlements, text, pasted,
                   store_category_map, returned, split_expenses,
                   transactions>>

NextLedger == add_split_expense \/ settle_expense \/ split_group

SpecLedger == InitLedger /\ [][NextLedger]_vars

----------------------------------------------------------------------------
(* Claims about the balances of a group *)

\* C19: after any requests that add expenses, split equally or by custom
\* shares, and that settle expenses, the net balances split_group hands to
\* simplify_debts sum to zero within 0.01.
C19_GroupBalancesSumToZero ==
    pc = "split_group" => Abs(SumOver(balances, DOMAIN balances)) <= EPS

----------------------------------------------------------------------------
(* Claims about balances below the epsilon *)

\* the participants whose balance is below 0.01 in absolute value
BelowEpsilon(b) == {m \in DOMAIN b : Abs(b[m]) < EPS}

\* the balances of the others alone
WithoutBelowEpsilon(b) == [m \in DOMAIN b \ BelowEpsilon(b) |-> b[m]]

BelowEpsilonNames == {MemberMapGet(member_map, m) : m \in BelowEpsilon(balances)}

\* C20: a participant whose balance is below 0.01 in absolute value is on
\* neither list of simplify_debts and, where names tell the participants
\* apart, is neither the sender nor the receiver of a returned transfer; and
\* the transfers returned are those returned for the other participants alone.
C20_BelowEpsilonTakesNoPart ==
    /\ \A k \in 1..Len(creditors) : creditors[k].mid \notin BelowEpsilon(balances)
    /\ \A k \in 1..Len(debtors) : debtors[k].mid \notin BelowEpsilon(balances)
    /\ pc = "done" =>
          /\ settlements = simplify_debts(WithoutBelowEpsilon(balances), member_map)
          /\ NamesIdentify =>
                \A k \in 1..Len(settlements) :
                    /\ settlements[k].from \notin BelowEpsilonNames
                    /\ settlements[k].to \notin BelowEpsilonNames

C20_Witness ==
    /\ pc = "done"
    /\ member_map = FullMap
    /\ \E m \in DOMAIN balances : 0 < balances[m] /\ balances[m] < EPS
    /\ \E m \in DOMAIN balances : 0 - EPS < balances[m] /\ balances[m] < 0
    /\ Len(settlements) >= 1
    /\ settlements = simplify_debts(WithoutBelowEpsilon(balances), member_map)

----------------------------------------------------------------------------
(* Claims about the end of the loop of simplify_debts *)

\* how often the body of the loop runs from the state st on
RECURSIVE LoopIterations(_, _)
LoopIterations(st, mm) ==
    IF LoopCondition(st) THEN 1 + LoopIterations(LoopBody(st, mm), mm) ELSE 0

\* an iteration moves i or j forward and appends at most one transfer
EachIterationAdvances ==
    [][pc = "loop" /\ pc' = "loop" =>
          /\ i' > i \/ j' > j
          /\ i' >= i /\ j' >= j
          /\ Len(settlements') <= Len(settlements) + 1]_vars

\* the loop, once entered, is left and the list returned
LoopEnds == (pc = "loop") ~> (pc = "done")

\* once returned, the iterations run and the transfers emitted are within bound
EndsWithin(bound) ==
    pc = "done" =>
        /\ LoopIterations(LoopStart(balances), member_map) <= bound
        /\ Len(settlements) <= bound

\* C21 as stated: simplify_debts returns; every iteration advances past a
\* debtor or a creditor; the iterations, and so the transfers, are at most
\* (number of debtors + number of creditors - 1).
C21_EndsWithinListsLessOne ==
    /\ LoopEnds
    /\ EachIterationAdvances
    /\ [](EndsWithin(Len(debtors) + Len(creditors) - 1))

\* C21 amended: the same, the bound being 0 where both lists are empty.
C21_EndsWithinListsLessOneOrZero ==
    /\ LoopEnds
    /\ EachIterationAdvances
    /\ [](EndsWithin(IF debtors = <<>> /\ creditors = <<>> THEN 0
                     ELSE Len(debtors) + Len(creditors) - 1))

C21_Witness ==
    /\ pc = "done"
    /\ Len(debtors) >= 2
    /\ Len(creditors) >= 2
    /\ LoopIterations(LoopStart(balances), member_map)
           = Len(debtors) + Len(creditors) - 1
    /\ Len(settlements) >= 1

----------------------------------------------------------------------------
(* Claims about the chunks of parse_sms_bulk *)

\* what the extractor of each message returns, in the order of the messages
MessageResults(msgs) ==
    [k \in 1..Len(msgs) |-> ExtractorResult(msgs[k]).value]

\* every message starts with a card marker and has an amount that is kept
MarkerStartedWithAmount(msgs) ==
    \A k \in 1..Len(msgs) :
        /\ msgs[k].card \in {Card_Karta, Card_Humo}
        /\ ~ExtractorResult(msgs[k]).raised
        /\ IsTruthyAmount(ExtractorResult(msgs[k]).value.amount)

\* a block of two or more messages with no blank line anywhere
NoBlankLineBlock ==
    /\ pasted \in Blocks
    /\ pasted.sep \in {Sep_Newline, Sep_Space}

\* the chunks of a mixed block, as its blank line sets them apart
BlankLineChunks ==
    IF pasted.blank = 2
    THEN <<MessageText(pasted.msgs[1]) \o pasted.sep
               \o MessageText(pasted.msgs[2]),
           MessageText(pasted.msgs[3])>>
    ELSE <<MessageText(pasted.msgs[1]),
           MessageText(pasted.msgs[2]) \o pasted.sep
               \o MessageText(pasted.msgs[3])>>

\* C22: k messages that start with a card marker and carry an amount, pasted
\* with no blank line between them, give k transactions in the order of the
\* messages; where a blank line sets two chunks apart, the chunks are parsed
\* as they are and none is split again at a card marker.
C22_MarkerSplitOnlyWithoutBlankLine ==
    pc = "bulk" =>
        /\ (NoBlankLineBlock /\ MarkerStartedWithAmount(pasted.msgs)) =>
              /\ ~result.raised
              /\ Len(result.value) = Len(pasted.msgs)
              /\ result.value = MessageResults(pasted.msgs)
        /\ pasted \in MixedBlocks =>
              /\ result = BulkResults(BlankLineChunks, 1, <<>>)
              /\ ~result.raised => Len(result.value) <= 2

C22_Witness ==
    /\ pc = "bulk"
    /\ pasted = Block(<<Message(Card_Karta, Amt_Debit, Tail_Uzcard),
                        Message(Card_Humo, Amt_Spisanie, Tail_Humo)>>,
                      Sep_Newline)
    /\ Len(result.value) = 2
    /\ result.value[1].card = Some(<<"*", "1", "2", "3", "4">>)
    /\ result.value[2].card
           = Some(<<"H", "U", "M", "O", " ", "*", "5", "6", "7", "8">>)

----------------------------------------------------------------------------
(* Claims about the extractor a chunk goes to *)

\* the chunks of a block that are known from its pieces, each as the messages
\* it holds: one message, messages set apart by blank lines, a mixed block
PastedChunks ==
    IF pasted \in MixedBlocks
    THEN IF pasted.blank = 2
         THEN <<SubSeq(pasted.msgs, 1, 2), SubSeq(pasted.msgs, 3, 3)>>
         ELSE <<SubSeq(pasted.msgs, 1, 1), SubSeq(pasted.msgs, 2, 3)>>
    ELSE [k \in 1..Len(pasted.msgs) |-> <<pasted.msgs[k]>>]

ChunksKnown ==
    \/ pasted \in MixedBlocks
    \/ Len(pasted.msgs) = 1
    \/ pasted.sep \in {Sep_Blank, Sep_BlankSpaces}

ChunkText(msgs) == BlockText(msgs, pasted.sep)

\* the Humo keyword is in a chunk exactly when one of its messages has the
\* HUMO card prefix; the karta keyword, when one has the Karta prefix
HasHumoKeyword(msgs) == \E k \in 1..Len(msgs) : msgs[k].card = Card_Humo
HasKartaKeyword(msgs) == \E k \in 1..Len(msgs) : msgs[k].card = Card_Karta

ExtractorOfChunk(msgs) ==
    IF HasHumoKeyword(msgs) THEN parse_sms_humo(ChunkText(msgs))
    ELSE parse_sms_uzcard(ChunkText(msgs))

\* the list made of the chunks' results from the k-th on
RECURSIVE KeptResults(_, _)
KeptResults(chunks, k) ==
    LET Then(parsed, rest) ==
            IF parsed.raised THEN parsed
            ELSE IF rest.raised THEN rest
            ELSE Returned((IF IsTruthyAmount(parsed.value.amount)
                           THEN <<parsed.value>> ELSE <<>>) \o rest.value)
    IN  IF k > Len(chunks) THEN Returned(<<>>)
        ELSE Then(ExtractorOfChunk(chunks[k]), KeptResults(chunks, k + 1))

\* C23: parse_sms_bulk hands a chunk to parse_sms_humo if the chunk holds the
\* Humo keyword in any case, also when it holds the karta keyword too, and to
\* parse_sms_uzcard otherwise, with or without the karta keyword.
C23_HumoKeywordDecidesExtractor ==
    (pc = "bulk" /\ ChunksKnown) => result = KeptResults(PastedChunks, 1)

C23_Witness ==
    /\ pc = "bulk"
    /\ pasted \in MixedBlocks
    /\ pasted.blank = 2
    /\ HasKartaKeyword(PastedChunks[1])
    /\ HasHumoKeyword(PastedChunks[1])
    /\ pasted.msgs[1] = Message(Card_Karta, Amt_Debit, Tail_Uzcard)
    /\ pasted.msgs[2] = Message(Card_Humo, Amt_Spisanie, Tail_Humo)
    /\ pasted.msgs[3] = Message(Card_Karta, Amt_Debit, Tail_Uzcard)
    /\ result = KeptResults(PastedChunks, 1)
    /\ ~result.raised
    /\ Len(result.value) = 2
    /\ result.value[1] = parse_sms_humo(ChunkText(PastedChunks[1])).value
    /\ result.value[1] # parse_sms_uzcard(ChunkText(PastedChunks[1])).value
    /\ result.value[2] = parse_sms_uzcard(ChunkText(PastedChunks[2])).value

----------------------------------------------------------------------------
(* Claims about parse_sms_humo *)

\* the deposit keywords occur in two amount phrases and nowhere else
HumoDepositPhrases == {Amt_Popolnenie, Amt_KirimOnly}

\* the number after the action keyword of an amount phrase
KeywordNumber(amt) ==
    IF amt = Amt_Spisanie THEN Some(DecOfInt(250000))
    ELSE IF amt = Amt_Popolnenie THEN Some([n |-> 995, e |-> 1])
    ELSE None

\* the numbers before a currency word in a message, in order, each as the
\* amount it is read as; tab is what the number written with a tab is read as
BareNumbers(m, tab) ==
    (IF m.amt \in {Amt_Debit, Amt_Credit} THEN <<Some(DecOfInt(150000))>>
     ELSE IF m.amt = Amt_Zero THEN <<Some(DecOfInt(0))>>
     ELSE IF m.amt = Amt_Tab THEN <<tab>>
     ELSE IF m.amt \in {Amt_Spisanie, Amt_Popolnenie} THEN <<KeywordNumber(m.amt)>>
     ELSE <<>>)
    \o (IF m.tail = Tail_Uzcard THEN <<Some(DecOfInt(3500000))>>
        ELSE IF m.tail = Tail_Humo THEN <<Some(DecOfInt(1200000))>>
        ELSE <<>>)

RECURSIVE AllBareNumbers(_, _)
AllBareNumbers(msgs, tab) ==
    IF msgs = <<>> THEN <<>>
    ELSE BareNumbers(msgs[1], tab) \o AllBareNumbers(Tail(msgs), tab)

WithKeywordNumber(msgs) == {k \in 1..Len(msgs) : KeywordNumber(msgs[k].amt) # None}

KeywordElseFirstBare(msgs, tab) ==
    IF WithKeywordNumber(msgs) # {}
    THEN KeywordNumber(msgs[FirstPosition(WithKeywordNumber(msgs))].amt)
    ELSE IF AllBareNumbers(msgs, tab) # <<>> THEN AllBareNumbers(msgs, tab)[1]
    ELSE None

HumoTypeAndAmount(tab) ==
    pc = "humo" =>
        /\ ~result.raised
        /\ result.value.type
               = IF \E k \in 1..Len(pasted.msgs) :
                       pasted.msgs[k].amt \in HumoDepositPhrases
                 THEN "income" ELSE "expense"
        /\ result.value.amount = KeywordElseFirstBare(pasted.msgs, tab)

\* C24 as stated: parse_sms_humo gives type income exactly when a deposit
\* keyword is in the text, with or without an amount; its amount is the number
\* before the currency that follows an action keyword where there is one,
\* also after an earlier number without a keyword, and else the first number
\* before a currency word ("1\t000.00 UZS" being the number 1000).
C24_HumoTypeAndKeywordAmount == HumoTypeAndAmount(Some(DecOfInt(1000)))

\* C24 amended: the same, the amount being absent where the number found is
\* written with whitespace other than spaces, which float() does not read.
C24_HumoTypeAndReadableAmount == HumoTypeAndAmount(None)

C24_Witness ==
    /\ pc = "humo"
    /\ pasted = Block(<<Message(Card_Karta, Amt_Debit, Tail_Uzcard),
                        Message(Card_Humo, Amt_Spisanie, Tail_Humo)>>,
                      Sep_Newline)
    /\ result.value.amount = Some(DecOfInt(250000))
    /\ result.value.type = "expense"

----------------------------------------------------------------------------
(* Claims about a statement without amount columns *)

\* the headers that name no amount column and not both a credit and a debit
\* column: none of the three, a credit column alone, a debit column alone
HeadersWithoutAmounts == {Hdr_NoAmount, Hdr_CreditOnly, Hdr_DebitOnly}

\* C25: parse_csv returns the empty list for a statement whose header names
\* neither an amount column nor both a credit and a debit column, whatever
\* its data rows hold.
C25_NoAmountColumnsNoRows ==
    (pc = "csv" /\ pasted.header \in HeadersWithoutAmounts) =>
        result = Returned(<<>>)

C25_Witness ==
    /\ pc = "csv"
    /\ pasted = Table(Hdr_CreditOnly, <<Row_BadMonth, Row_Usd>>)
    /\ result = Returned(<<>>)

----------------------------------------------------------------------------
(* Claims about the currency of a receipt *)

\* the lines that hold the letters USD as capitals, or a dollar sign
LiteralUsdLines == {Item_Usd, Item_Dollar}

\* the lines that hold the letters usd in small letters only
LowerUsdLines == {Item_UsdLower}

CurrencyByLines(usd_lines) ==
    pc = "receipt" =>
        /\ ~result.raised
        /\ result.value.currency
               = IF \E k \in 1..Len(pasted) : pasted[k] \in usd_lines
                 THEN "USD" ELSE "UZS"

\* C26 as stated: parse_receipt_text returns the currency USD only for a text
\* that holds "USD" or a dollar sign, and UZS for every other text.
C26_UsdOnlyForLiteralMarker == CurrencyByLines(LiteralUsdLines)

\* C26 amended: USD for a text that holds the letters USD in any case, or a
\* dollar sign, and UZS for every other text.
C26_UsdInAnyCase == CurrencyByLines(LiteralUsdLines \cup LowerUsdLines)

C26_Witness ==
    /\ pc = "receipt"
    /\ pasted = <<Head_Shop, Item_UsdLower, Upper_Total>>
    /\ result.value.currency = "USD"
    /\ ~Contains(text, <<"U", "S", "D">>)
    /\ ~Contains(text, <<"$">>)

----------------------------------------------------------------------------
(* The stored transactions: the requests that write a Transaction *)

MaxTransactions == 2
MaxCount == 2

\* the text of a form's amount field; None is a field the form lacks
Fld_Absent == None
Fld_Text == Some(<<"a", "b", "c">>)
Fld_Zero == Some(<<"0">>)
Fld_Negative == Some(<<"-", "5">>)
Fld_Five == Some(<<"5">>)
Fld_Fraction == Some(<<"2", ".", "5", "0">>)
Fld_Nan == Some(<<"n", "a", "n">>)
Fld_Inf == Some(<<"i", "n", "f">>)

AmountFields ==
    {Fld_Absent, Fld_Text, Fld_Zero, Fld_Negative, Fld_Five, Fld_Fraction,
     Fld_Nan, Fld_Inf}

TypeFields == {None, Some("expense")}
CategoryFields == {None, Some("Food")}

\* the fields of the form of add_transaction, edit_transaction, scan_confirm
Forms == [amount : AmountFields, type : TypeFields, category : CategoryFields]

\* one numbered row of the form of import_confirm: an unticked row is skipped
\* whatever its amount, so one amount stands for all of them
ImportRows ==
    [select : {TRUE}, amount : AmountFields]
        \cup [select : {FALSE}, amount : {Fld_Five}]

ImportForms == UNION {[1..count -> ImportRows] : count \in 0..MaxCount}

\* the floats that are not numbers n / 10^e
NaN == [nan |-> TRUE]
Inf(negative) == [inf |-> TRUE, negative |-> negative]

IsNaN(x) == "nan" \in DOMAIN x
IsInf(x) == "inf" \in DOMAIN x

\* float(s) of a form field: also 'nan' and 'inf', signed, in any case
FormFloat(s) ==
    LET Named(negative, body) ==
            IF body = <<"n", "a", "n">> THEN Some(NaN)
            ELSE IF body \in {<<"i", "n", "f">>,
                              <<"i", "n", "f", "i", "n", "i", "t", "y">>}
            THEN Some(Inf(negative))
            ELSE PyFloat(s)
        Signed(t) ==
            IF t # <<>> /\ t[1] \in {"+", "-"}
            THEN Named(t[1] = "-", Tail(t))
            ELSE Named(FALSE, t)
    IN  Signed(LowerStr(Strip(s)))

\* lines 97-101: float(None) is a TypeError, float('abc') a ValueError
safe_float(val) ==
    LET Parsed(f) == IF f = None THEN DecOfInt(0) ELSE f[1]
    IN  IF val = None THEN DecOfInt(0) ELSE Parsed(FormFloat(val[1]))

AtMostZeroStrictly(amount) ==
    IF IsNaN(amount) THEN FALSE
    ELSE IF IsInf(amount) THEN amount.negative
    ELSE amount.n < 0

\* amount <= 0: false of nan
AtMostZero(amount) ==
    IF IsNaN(amount) THEN FALSE
    ELSE IF IsInf(amount) THEN amount.negative
    ELSE amount.n <= 0

\* Transaction(type=..., amount=..., category=...): currency, description and
\* date have defaults and are left out
Transaction(type, amount, category) ==
    [id |-> 0, type |-> type, amount |-> amount, category |-> category]

\* the rows take the next ids
WithIds(pending, last) ==
    [k \in 1..Len(pending) |-> [pending[k] EXCEPT !.id = last + k]]

\* models.py, amount = db.Column(db.Float, nullable=False): sqlite3 binds nan
\* as NULL, and the INSERT or UPDATE fails
NotNullFails(rows) == \E k \in DOMAIN rows : IsNaN(rows[k].amount)

\* db.session.add(...) of the pending rows, then db.session.commit(): the
\* commit is one database transaction, all of the rows or none
Commit(pending, page) ==
    IF NotNullFails(pending)
    THEN /\ transactions' = transactions
         /\ result' = Raised("IntegrityError")
    ELSE /\ transactions' = transactions \o WithIds(pending, Len(transactions))
         /\ result' = Returned(page)

\* flash(...) and redirect(...) with nothing written
Redirect(page) == transactions' = transactions /\ result' = Returned(page)

\* request.form['type'] of a form without the field: 400, nothing written
BadRequest ==
    transactions' = transactions /\ result' = Raised("BadRequestKeyError")

InitStore ==
    /\ pc = "start"
    /\ transactions = <<>>
    /\ split_expenses = <<>>
    /\ returned = <<>>
    /\ balances = <<>>
    /\ member_map = <<>>
    /\ NoLocals
    /\ NoText
    /\ store_category_map = STORE_CATEGORY_MAP

\* lines 266-281
add_transaction ==
    /\ Len(transactions) < MaxTransactions
    /\ \E form \in Forms :
          /\ pasted' = <<[select |-> TRUE, amount |-> form.amount]>>
          /\ IF AtMostZero(safe_float(form.amount))
             THEN Redirect("transactions")
             ELSE IF form.type = None \/ form.category = None
             THEN BadRequest
             ELSE Commit(<<Transaction(form.type[1],
                                       safe_float(form.amount),
                                       form.category[1])>>, "transactions")
    /\ pc' = "add_transaction"
    /\ UNCHANGED <<balances, member_map, creditors, debtors, i, j,
                   settlements, text, store_category_map, returned,
                   split_expenses>>

\* lines 291-308: the session's changes are written by the commit only
edit_transaction ==
    /\ \E id \in 1..(Len(transactions) + 1) :
          IF id > Len(transactions)
          THEN /\ pasted' = <<>>
               /\ transactions' = transactions
               /\ result' = Raised("NotFound")
          ELSE \/ /\ pasted' = <<>>
                  /\ Redirect("edit_transaction.html")
               \/ \E form \in Forms :
                     /\ pasted' = <<[select |-> TRUE, amount |-> form.amount]>>
                     /\ IF AtMostZero(safe_float(form.amount))
                        THEN Redirect("edit_transaction")
                        ELSE IF form.type = None \/ form.category = None
                        THEN BadRequest
                        ELSE IF IsNaN(safe_float(form.amount))
                        THEN /\ transactions' = transactions
                             /\ result' = Raised("IntegrityError")
                        ELSE /\ transactions' =
                                  [transactions EXCEPT ![id] =
                                      [id |-> id,
                                       type |-> form.type[1],
                                       amount |-> safe_float(form.amount),
                                       category |-> form.category[1]]]
                             /\ result' = Returned("transactions")
    /\ pc' = "edit_transaction"
    /\ UNCHANGED <<balances, member_map, creditors, debtors, i, j,
                   settlements, text, store_category_map, returned,
                   split_expenses>>

\* lines 743-755
scan_confirm ==
    /\ Len(transactions) < MaxTransactions
    /\ \E form \in Forms :
          /\ pasted' = <<[select |-> TRUE, amount |-> form.amount]>>
          /\ IF AtMostZero(safe_float(form.amount))
             THEN Redirect("scan")
             ELSE IF form.type = None \/ form.category = None
             THEN BadRequest
             ELSE Commit(<<Transaction(form.type[1],
                                       safe_float(form.amount),
                                       form.category[1])>>, "transactions")
    /\ pc' = "scan_confirm"
    /\ UNCHANGED <<balances, member_map, creditors, debtors, i, j,
                   settlements, text, store_category_map, returned,
                   split_expenses>>

\* lines 779-789: the rows the loop adds to the session from the k-th on;
\* type and category default to 'expense' and 'Other'
RECURSIVE ImportPending(_, _)
ImportPending(form, k) ==
    IF k > Len(form) THEN <<>>
    ELSE IF ~form[k].select THEN ImportPending(form, k + 1)
    ELSE IF AtMostZero(safe_float(form[k].amount))
    THEN ImportPending(form, k + 1)
    ELSE <<Transaction("expense", safe_float(form[k].amount), "Other")>>
             \o ImportPending(form, k + 1)

\* lines 777-793
import_confirm ==
    /\ \E form \in ImportForms :
          /\ Len(transactions) + Len(ImportPending(form, 1))
                 <= MaxTransactions
          /\ pasted' = form
          /\ Commit(ImportPending(form, 1), "transactions")
    /\ pc' = "import_confirm"
    /\ UNCHANGED <<balances, member_map, creditors, debtors, i, j,
                   settlements, text, store_category_map, returned,
                   split_expenses>>

NextStore ==
    add_transaction \/ edit_transaction \/ scan_confirm \/ import_confirm

SpecStore == InitStore /\ [][NextStore]_vars

----------------------------------------------------------------------------
(* Claims about the stored transactions *)

\* the amount fields the claim names: absent, unparseable, zero, negative
UnusableFields == {Fld_Absent, Fld_Text, Fld_Zero, Fld_Negative}

\* a stored amount above zero
StoredPositive(amount) ==
    \/ amount \in {DecOfInt(5), [n |-> 25, e |-> 1]}
    \/ amount = Inf(FALSE)

\* the ticked rows of the form whose amount field is not one the claim names
TickedUsable(form) ==
    {k \in DOMAIN form : form[k].select /\ form[k].amount \notin UnusableFields}

\* C27: after each add_transaction, edit_transaction, scan_confirm or
\* import_confirm request every stored Transaction has an amount above zero;
\* a request whose amount field is absent, unparseable, zero or negative
\* leaves the stored transactions as they were, and an import stores at most
\* one new row per ticked row with another amount, keeping the old rows.
C27_StoredAmountsPositive ==
    [][ /\ \A k \in DOMAIN transactions' :
               StoredPositive(transactions'[k].amount)
        /\ (/\ pc' \in {"add_transaction", "edit_transaction", "scan_confirm"}
            /\ pasted' # <<>>
            /\ pasted'[1].amount \in UnusableFields)
               => transactions' = transactions
        /\ pc' = "import_confirm"
               => /\ Len(transactions') >= Len(transactions)
                  /\ SubSeq(transactions', 1, Len(transactions)) = transactions
                  /\ Len(transactions') - Len(transactions)
                         <= Cardinality(TickedUsable(pasted')) ]_vars

\* an import with a zero amount and a usable one, both ticked, after an
\* earlier transaction: the earlier row and the usable one are stored
C27_Witness ==
    /\ pc = "import_confirm"
    /\ result = Returned("transactions")
    /\ Len(pasted) = 2
    /\ pasted[1] = [select |-> TRUE, amount |-> Fld_Zero]
    /\ pasted[2] = [select |-> TRUE, amount |-> Fld_Fraction]
    /\ Len(transactions) = 2
    /\ transactions[1].amount = DecOfInt(5)
    /\ transactions[2].amount = [n |-> 25, e |-> 1]

----------------------------------------------------------------------------
(* Claims about the amounts simplify_debts deducts *)

\* what the participant of a list entry owes or is owed: the input balance
Owed(entry) == Abs(balances[entry.mid])

\* every entry's remainder lies between nothing and the whole amount
WithinOwed(list) ==
    \A k \in DOMAIN list : 0 <= list[k].rem /\ list[k].rem <= Owed(list[k])

\* what a step takes off the remainders of a list
TakenOff(before, after) ==
    SumOver([k \in DOMAIN before |-> before[k].rem - after[k].rem],
            DOMAIN before)

\* a step takes nothing off but by deducting: no remainder grows, no entry
\* comes or goes
OnlyDeducted(before, after) ==
    /\ DOMAIN after = DOMAIN before
    /\ \A k \in DOMAIN before :
           after[k].mid = before[k].mid /\ after[k].rem <= before[k].rem

\* C28: the lists start with what each debtor owes and each creditor is
\* owed; every iteration only deducts, the same amount from one debtor as
\* from one creditor; so what has been deducted from a participant in all is
\* the input amount less the remainder, and it is never more than the input
\* amount because no remainder is ever below zero.
C28_NeverDeductsMoreThanOwed ==
    [][ /\ (pc = "start" /\ pc' = "loop") =>
               /\ \A k \in DOMAIN debtors' : debtors'[k].rem = Owed(debtors'[k])
               /\ \A k \in DOMAIN creditors' :
                      creditors'[k].rem = Owed(creditors'[k])
        /\ (pc = "loop" /\ pc' = "loop") =>
               /\ OnlyDeducted(debtors, debtors')
               /\ OnlyDeducted(creditors, creditors')
               /\ TakenOff(debtors, debtors') = TakenOff(creditors, creditors')
               /\ TakenOff(debtors, debtors') > 0
        /\ pc' \in {"loop", "done"} =>
               WithinOwed(debtors') /\ WithinOwed(creditors') ]_vars

\* a debtor has paid two creditors, and nothing is left of the debt
C28_Witness ==
    /\ pc = "done"
    /\ member_map = FullMap
    /\ Len(debtors) = 1
    /\ debtors[1].rem = 0
    /\ Owed(debtors[1]) = 8
    /\ Len(creditors) = 2
    /\ creditors[1].rem = 0 /\ creditors[2].rem = 0
    /\ Len(settlements) = 2
    /\ settlements[1].from = settlements[2].from

----------------------------------------------------------------------------
(* Claims about the parties of a transfer *)

\* the participants whose input balance is below -0.01, and above 0.01
OwingIds == {m \in DOMAIN balances : balances[m] < 0 - EPS}
OwedIds == {m \in DOMAIN balances : balances[m] > EPS}

NamesOf(ids) == {MemberMapGet(member_map, m) : m \in ids}

\* the transfer an iteration appends is from the debtor at i to the creditor
\* at j, the first owing and the second owed more than 0.01
AppendedTransferParties ==
    (pc = "loop" /\ pc' = "loop" /\ Len(settlements') = Len(settlements) + 1)
        => /\ settlements'[Len(settlements')].from
                  = MemberMapGet(member_map, debtors[i].mid)
           /\ settlements'[Len(settlements')].to
                  = MemberMapGet(member_map, creditors[j].mid)
           /\ debtors[i].mid \in OwingIds
           /\ creditors[j].mid \in OwedIds
           /\ debtors[i].mid # creditors[j].mid

\* C29: every transfer is from a participant whose input balance is below
\* -0.01 to one whose input balance is above 0.01; the two are different
\* participants, and no participant is on both lists, so none both sends
\* and receives; where every participant has a name of its own the returned
\* list shows it: senders' names and receivers' names do not meet.
C29_SendersOweReceiversAreOwed ==
    [][ /\ AppendedTransferParties
        /\ pc' \in {"loop", "done"} =>
               {debtors'[k].mid : k \in DOMAIN debtors'}
                   \cap {creditors'[k].mid : k \in DOMAIN creditors'} = {}
        /\ (pc' = "done" /\ NamesIdentify) =>
               /\ \A k \in DOMAIN settlements' :
                      /\ settlements'[k].from \in NamesOf(OwingIds)
                      /\ settlements'[k].to \in NamesOf(OwedIds)
                      /\ settlements'[k].from # settlements'[k].to
               /\ {settlements'[k].from : k \in DOMAIN settlements'}
                      \cap {settlements'[k].to : k \in DOMAIN settlements'}
                      = {} ]_vars

\* two transfers between four participants, each with a name of its own
C29_Witness ==
    /\ pc = "done"
    /\ NamesIdentify
    /\ Len(settlements) = 2
    /\ Cardinality(OwingIds) = 2
    /\ Cardinality(OwedIds) = 2
    /\ settlements[1].from # settlements[2].from
    /\ settlements[1].to # settlements[2].to

----------------------------------------------------------------------------
(* Claims about settling an expense *)

\* what one expense adds to the balance of m: the amount for the payer, less
\* the share of m
Contribution(expense, m) ==
    (IF expense.paid_by = m THEN expense.amount ELSE 0) - expense.shares[m]

UnsettledExpenses(expenses) == {k \in DOMAIN expenses : ~expenses[k].settled}

\* the balances made of the contributions of the expenses counted alone
BalancesOf(expenses, counted) ==
    IF counted = {} THEN <<>>
    ELSE [m \in Members |->
             SumOver([k \in counted |-> Contribution(expenses[k], m)], counted)]

\* the rows differ in the settled flag of one expense only, which is negated
OnlyFlagNegated(before, after, expense_id) ==
    /\ DOMAIN after = DOMAIN before
    /\ after[expense_id].settled = ~before[expense_id].settled
    /\ \A k \in DOMAIN before :
           after[k] = [before[k] EXCEPT !.settled = after[k].settled]
    /\ \A k \in DOMAIN before \ {expense_id} : after[k] = before[k]

\* settling the expense once more gives the rows, the balances and the
\* transfers of before
SettlingAgainRestores(before, after, expense_id) ==
    /\ ToggleSettled(after, expense_id) = before
    /\ GroupBalances(ToggleSettled(after, expense_id)) = GroupBalances(before)
    /\ simplify_debts(GroupBalances(ToggleSettled(after, expense_id)), FullMap)
           = simplify_debts(GroupBalances(before), FullMap)

\* C30: settle_expense negates the settled flag of one expense and changes
\* nothing else; settling that expense again restores the rows, and with
\* them the balances and the transfers of split_group; the balances of
\* split_group are made of the contributions of the unsettled expenses alone,
\* each the same whatever the other expenses' flags, a settled one adding
\* nothing.
C30_SettledExpenseCountsForNothing ==
    [][ /\ pc' = "settle_expense" =>
               \E expense_id \in DOMAIN split_expenses :
                   /\ OnlyFlagNegated(split_expenses, split_expenses',
                                      expense_id)
                   /\ SettlingAgainRestores(split_expenses, split_expenses',
                                            expense_id)
        /\ pc' = "split_group" =>
               /\ balances' = BalancesOf(split_expenses',
                                         UnsettledExpenses(split_expenses'))
               /\ result' = Returned(simplify_debts(balances', FullMap)) ]_vars

\* the page of a group with a settled expense and an unsettled one, which
\* alone makes the balances and the transfers
C30_Witness ==
    /\ pc = "split_group"
    /\ Len(split_expenses) = 2
    /\ split_expenses[1].settled
    /\ split_expenses[1].amount = 7 * UnitsPerCent
    /\ ~split_expenses[2].settled
    /\ split_expenses[2].amount = 7 * UnitsPerCent
    /\ split_expenses[1].paid_by # split_expenses[2].paid_by
    /\ balances = BalancesOf(split_expenses, {2})
    /\ balances[split_expenses[1].paid_by] < 0
    /\ Len(result.value) >= 1

====
